---- MODULE Spec2Model ----
(***************************************************************************)
(* Ari: multi-agent orchestration and streaming aggregation.               *)
(*                                                                         *)
(* Part 1  GlobalAgentRegistry (src/core/lib/my_base_agent_lib.py): the    *)
(*         class-level registry and the stream_all_messages multiplexer.   *)
(* Part 2  ContentTracker.get_new_content (src/simple.py) and              *)
(*         StreamingReActAgent._record_streaming_data                      *)
(*         (src/core/lib/stream_agnet_lib.py): cumulative snapshots to     *)
(*         increments.                                                     *)
(***************************************************************************)
EXTENDS Integers, Sequences, FiniteSets, TLC

(* ---------------------------- bounds ----------------------------------- *)
\* agents that can ever be constructed
MaxAgents == 2
\* events emitted (calls of print) over a whole behaviour
MaxEvents == 2
\* calls of stream_all_messages over a whole behaviour
MaxSessions == 2

\* longest cumulative snapshot fed to an accumulator
MaxStrLen == 2
\* snapshots fed to an accumulator over a whole behaviour
MaxFeeds == 2
\* subtasks in a planner response
MaxSubtasks == 2
\* longest message content classified
MaxContentLen == 22
\* longest agent_name given to create_worker, and largest task_id
MaxNameLen == 2
MaxTaskId == 11
\* events passed to MessageRouter.route_message
MaxRouted == 3
MaxSubmissions == 3
MaxClears == 2
MaxMsgIds == 2
MaxWidgets == 3
MaxTimers == 2
\* events handed to the router's handlers over a whole behaviour
MaxHandled == 3

AgentIds == 1..MaxAgents
SessionIds == 1..MaxSessions

\* the default end_signal of stream_all_messages
end_signal == "[END]"

VARIABLES
    \* ---- GlobalAgentRegistry class attributes
    agents,              \* _agents: list of registered agents (their ids)
    monitored_agent_ids, \* _monitored_agent_ids
    message_queue,       \* _message_queue: 0 is None, s is the asyncio.Queue made by call s
    queues,              \* contents of the asyncio.Queue object made by call s
    \* ---- per agent
    msg_queue,           \* agent.msg_queue: 0 is disabled, s the queue of call s
    emitted,             \* number of print() calls of the agent so far
    \* ---- the calls of stream_all_messages
    calls,               \* number of calls made so far; the latest call is call `calls`
    gen,                 \* position of the latest call's async generator
    last_checked_index,  \* its local last_checked_index
    raised,              \* what it raised to its caller
    task,                \* per call: state of its root task
    callbacks,           \* calls whose done-callback is scheduled and has not run
    \* ---- history of the latest call
    sent,                \* events emitted while it was iterated and its root task ran
    yielded,             \* events it yielded to its consumer, in order
    setups,              \* per agent: effective _setup_agent_queue calls during it
    rescans              \* timeouts of it that found newly registered agents

muxVars == <<agents, monitored_agent_ids, message_queue, queues, msg_queue, emitted,
             calls, gen, last_checked_index, raised, task, callbacks,
             sent, yielded, setups, rescans>>

VARIABLES
    unit,                \* which accumulator the behaviour exercises
    \* ---- ContentTracker (src/simple.py)
    displayed_lengths,   \* displayed_lengths[agent_name][content_type]
    returned,            \* value returned by the last get_new_content call
    last_call,           \* the last call: its key, its argument, the length recorded before it
    \* ---- StreamingReActAgent (src/core/lib/stream_agnet_lib.py)
    current_streaming_data,     \* _current_streaming_data: <<>> is None, <<d>> the dict d
    current_streaming_complete, \* _current_streaming_complete
    \* ---- history, per key (tracker) and per kind (recorder)
    snapshot,            \* the last snapshot fed (for the recorder: the last block of the kind)
    delivered,           \* concatenation of the increments handed out
    growing,             \* every snapshot fed so far had the one before it as a prefix
    feeds                \* number of snapshots fed so far

VARIABLES
    \* ---- history of the tracker per message (Msg.id) of an agent
    msg_id,              \* number of the message the agent is emitting (0: none yet)
    turn_snapshot,       \* per key: the last snapshot fed that belongs to that message
    turn_delivered,      \* per key: concatenation of the increments returned for that message
    turn_growing         \* per key: the snapshots of that message grew by appending

turnVars == <<msg_id, turn_snapshot, turn_delivered, turn_growing>>

VARIABLES
    \* ---- a reader of StreamingResponse.get_text_stream()
    reader_pc,           \* position of the async generator _get_streaming_content('text')
    reader_start,        \* when it was first iterated: "during" or "after" the call
    recorded_count,      \* its local recorded_count
    reader_yielded,      \* the chunks it has yielded, in order
    final_recorded       \* an event with last = True was recorded during the latest call

readerVars == <<reader_pc, reader_start, recorded_count, reader_yielded, final_recorded>>

accVars == <<unit, displayed_lengths, returned, last_call, current_streaming_data,
             current_streaming_complete, snapshot, delivered, growing, feeds, turnVars,
             readerVars>>

VARIABLES
    \* ---- ContentTracker.get_tool_param_changes (src/simple.py)
    tool_params_state,   \* tool_params_state: tool id -> (key -> str of the last value)
    changes,             \* the dict returned by the last call
    tool_call,           \* the last call: tool id, current_params, the state it found
    param_value,         \* per (tool id, key): the last value passed
    param_delivered,     \* per (tool id, key): concatenation of the pieces returned
    param_growing,       \* per (tool id, key): always a string, grown only by appending
    tool_calls           \* number of calls so far

toolVars == <<tool_params_state, changes, tool_call, param_value, param_delivered,
              param_growing, tool_calls>>

VARIABLES
    \* ---- AriAgent.__call__ / handle_complex_task / TaskExecutor (src/core)
    pc,                  \* where the orchestration stands
    entry,               \* the function the caller invoked
    last_response,       \* the planner response decompose_task was given last
    plan,                \* plan.subtasks of the plan in hand (names, in order)
    metadata_dict,       \* metadata_dict: name -> dependencies
    next_subtask,        \* position in plan of the next subtask of execute_plan's loop
    current_subtask,     \* the subtask whose worker is running (<<>>: none)
    status,              \* per subtask of the plan: Pending, Running, Done, Failed
    execution_results,   \* names with an entry in execution_results
    exception,           \* exception that left the entry function
    classifications,     \* calls of analyze_task_type
    decomposition_rounds,\* calls of decompose_task
    aggregation_calls    \* calls of _generate_final_response's model call

planVars == <<pc, entry, last_response, plan, metadata_dict, next_subtask, current_subtask,
              status, execution_results, exception, classifications,
              decomposition_rounds, aggregation_calls>>

VARIABLES
    \* ---- create_worker (src/tools/create_worker.py)
    cw_pc,               \* where the call stands: idle, constructing, running, returned, raised
    cw_task_id,          \* the task_id argument
    invocations,         \* times the worker was awaited in this call
    res,                 \* <<>> or <<the Msg content the worker returned>>
    raised_inside,       \* <<>> or <<str(e)>> of the exception raised inside the try block
    responses            \* the ToolResponses the call returned, in order

workerVars == <<cw_pc, cw_task_id, invocations, res, raised_inside, responses>>

VARIABLES
    \* ---- MessageRouter (src/ui/message_router.py)
    steps,               \* self.steps: the "status" of each step, in order
    planning_completed,  \* self.planning_completed
    last_final,          \* the last message routed, if it was a final worker message that
                         \* set a status: what the detection read of it, and that status
    planner_final,       \* a final event of the planning agent holding a valid plan was routed
    \* ---- AriAgentManager (src/core/agent_manager.py), fed the same events
    manager_steps,       \* its self.steps: the "status" of each step
    notified             \* the last event, and which consumer announced "all tasks complete" at it

routerVars == <<steps, planning_completed, last_final, planner_final, manager_steps, notified>>

VARIABLES
    \* ---- AriAgent.analyze_task_type on message texts (src/core/ari_agent.py)
    message_content,     \* message.content of the last message classified
    task_type            \* what analyze_task_type returned for it ("none": no call yet)

classifyVars == <<message_content, task_type>>

VARIABLES
    \* ---- the name of a worker, from create_worker to the stream consumers
    worker_args,         \* agent_name and task_id passed to create_worker
    worker_msg_name,     \* name of the worker built from them (<<>>: not built yet)
    parsed_task_id       \* task id each consumer reads from msg.name (<<>>: not read yet)

nameVars == <<worker_args, worker_msg_name, parsed_task_id>>

VARIABLES
    \* ---- MessageRouter's batch processing (src/ui/message_router.py)
    update_queue,        \* self._update_queue: the events waiting, oldest first
    processing,          \* self._processing
    batch_tasks,         \* the _process_updates tasks created so far: each one's position
    in_hand,             \* per task: the event it took from the queue last
    routed,              \* number of route_message calls so far; event e is the e-th call's
    began,               \* events whose _do_route began, in that order
    finished             \* events whose _do_route returned

batchVars == <<update_queue, processing, batch_tasks, in_hand, routed, began, finished>>

VARIABLES
    \* ---- MultiAgentApp (src/main.py)
    task_running,        \* self._task_running
    run_pc,              \* where the accepted run's on_user_input_submitted is suspended
    registry_agents,     \* GlobalAgentRegistry._agents: the names of the agents in it
    root_instance,       \* MainReActAgent._instance is not None
    clear_pending,       \* do_clear tasks created and not yet begun
    sessions,            \* stream_all_messages generators being iterated
    submitted,           \* calls of on_user_input_submitted so far
    clear_calls,         \* calls of action_clear so far
    root_id,             \* which object MainReActAgent._instance is: 0 is None
    root_initialized,    \* _instance._initialized
    registry_roots,      \* the objects in GlobalAgentRegistry._agents that bear the root name
    constructed,         \* MainReActAgent objects created so far
    \* ---- SystemMessageWidget (src/ui/system_message_widget.py)
    system_messages,     \* self._messages: level and text of the widgets in it
    seen_message_ids,    \* self._seen_message_ids
    warnings_pending,    \* add_message tasks action_clear created that have not run
    clearing             \* do_clear tasks that have begun and not yet cleared the widgets

\* the SystemMessageWidget of the application and the tasks that write to it
sysVars == <<system_messages, seen_message_ids, warnings_pending, clearing>>

appVars == <<task_running, run_pc, registry_agents, root_instance, clear_pending, sessions,
            submitted, clear_calls, root_id, root_initialized, registry_roots, constructed,
            sysVars>>

\* the MultiAgentApp variables that hold the identity of the root agent
rootVars == <<root_id, root_initialized, registry_roots, constructed>>

VARIABLES
    \* ---- MessageStreamer (src/simple.py)
    streamer_queue,       \* GlobalAgentRegistry._message_queue: <<>> is None, <<q>> the queue with contents q
    streamer_task,        \* self._task: "none", "running", "cancelling" (cancel() requested), "ok", "exc", "cancelled"
    streamer_callback,    \* safe_done_callback: "none", "attached", "scheduled", "ran", "removed"
    streamer_gen,         \* position of the __aiter__ generator
    streamer_interrupted, \* self._interrupted
    interrupt_pc,         \* position of the interrupt() call
    streamer_emitted,     \* events the agents put into the queue so far
    streamer_yielded      \* events the generator yielded so far

streamerVars == <<streamer_queue, streamer_task, streamer_callback, streamer_gen,
                 streamer_interrupted, interrupt_pc, streamer_emitted, streamer_yielded>>

VARIABLES
    \* ---- ChatWidget (src/ui/chat_widget.py)
    stream_blocks,        \* self.stream_blocks: the message ids that have a block in it
    mounted,              \* per message id: blocks mounted in the scroll container
    is_streaming,         \* per message id: is_streaming of the block mounted last
    nonfinal_events,      \* per message id: add_message calls with last = False so far
    final_event           \* per message id: "none", or whether its final event was "shown" or "hidden"

chatVars == <<stream_blocks, mounted, is_streaming, nonfinal_events, final_event>>

VARIABLES
    \* ---- ThinkingWidget (src/ui/thinking_widget.py)
    thinking_records,     \* self._current_thinking: per agent <<>> or <<record>> with tool_name, widget, completed
    clear_timers,         \* self._clear_timers: per agent 0 or the _delayed_clear task in it
    thinking_widgets,     \* the Static widgets created so far: the agent of each and whether it is mounted
    timers                \* the _delayed_clear tasks created so far: the agent and the position of each

thinkingVars == <<thinking_records, clear_timers, thinking_widgets, timers>>

VARIABLES
    \* ---- MessageRouter's handlers on the plan as parsed (src/ui/message_router.py)
    self_steps,               \* self.steps: the Python value it holds
    self_planning_completed,  \* self.planning_completed
    handled_count,            \* events _do_route was called with so far
    handled_event             \* the last of them: its handler, what it carried, whether the call raised

handlerVars == <<self_steps, self_planning_completed, handled_count, handled_event>>

VARIABLES
    \* ---- TaskListWidget (src/ui/task_list_widget.py)
    list_tasks,           \* self.tasks: task_id, status and result of each step
    row_keys,             \* self._row_keys: the task ids that have a row
    table_rows,           \* the rows of self._table: status and result shown
    rendering,            \* self._rendering
    pending_updates       \* self._pending_updates, in insertion order

taskListVars == <<list_tasks, row_keys, table_rows, rendering, pending_updates>>

\* the parts added last
moreVars == <<streamerVars, chatVars, thinkingVars, handlerVars, taskListVars>>

nonMuxVars == <<accVars, toolVars, planVars, workerVars, routerVars, classifyVars,
                nameVars, batchVars, appVars, moreVars>>
nonAccVars == <<muxVars, toolVars, planVars, workerVars, routerVars, classifyVars,
                nameVars, batchVars, appVars, moreVars>>
nonToolVars == <<muxVars, accVars, planVars, workerVars, routerVars, classifyVars,
                 nameVars, batchVars, appVars, moreVars>>
nonPlanVars == <<muxVars, accVars, toolVars, workerVars, routerVars, classifyVars,
                 nameVars, batchVars, appVars, moreVars>>
nonWorkerVars == <<muxVars, accVars, toolVars, planVars, routerVars, classifyVars,
                   nameVars, batchVars, appVars, moreVars>>
nonRouterVars == <<muxVars, accVars, toolVars, planVars, workerVars, classifyVars,
                   nameVars, batchVars, appVars, moreVars>>
nonClassifyVars == <<muxVars, accVars, toolVars, planVars, workerVars, routerVars,
                     nameVars, batchVars, appVars, moreVars>>
nonBatchVars == <<muxVars, accVars, toolVars, planVars, workerVars, routerVars, classifyVars,
                  nameVars, appVars, moreVars>>
nonNameVars == <<muxVars, accVars, toolVars, planVars, workerVars, routerVars,
                 classifyVars, batchVars, appVars, moreVars>>
nonAppVars == <<muxVars, accVars, toolVars, planVars, workerVars, routerVars,
                classifyVars, nameVars, batchVars, moreVars>>
nonStreamerVars == <<muxVars, accVars, toolVars, planVars, workerVars, routerVars,
                     classifyVars, nameVars, batchVars, appVars, chatVars, thinkingVars,
                     handlerVars, taskListVars>>
nonChatVars == <<muxVars, accVars, toolVars, planVars, workerVars, routerVars,
                 classifyVars, nameVars, batchVars, appVars, streamerVars, thinkingVars,
                 handlerVars, taskListVars>>
nonThinkingVars == <<muxVars, accVars, toolVars, planVars, workerVars, routerVars,
                     classifyVars, nameVars, batchVars, appVars, streamerVars, chatVars,
                     handlerVars, taskListVars>>
nonHandlerVars == <<muxVars, accVars, toolVars, planVars, workerVars, routerVars,
                    classifyVars, nameVars, batchVars, appVars, streamerVars, chatVars,
                    thinkingVars, taskListVars>>
nonTaskListVars == <<muxVars, accVars, toolVars, planVars, workerVars, routerVars,
                     classifyVars, nameVars, batchVars, appVars, streamerVars, chatVars,
                     thinkingVars, handlerVars>>

vars == <<muxVars, accVars, toolVars, planVars, workerVars, routerVars, classifyVars,
         nameVars, batchVars, appVars, moreVars>>

Range(f) == {f[i] : i \in DOMAIN f}

\* the latest call's generator is suspended inside its loop (at the await of
\* line 56 or at a yield)
Live == gen = "wait"

(* ------------------- GlobalAgentRegistry helpers ------------------------ *)

\* _setup_agent_queue on the fields held in st = [mq, mon, cnt]:
\* agent.set_msg_queue_enabled(True, q) unless the agent is already monitored
setup_agent_queue(st, a, q) ==
    IF a \notin st.mon
    THEN [mq  |-> [st.mq EXCEPT ![a] = q],
          mon |-> st.mon \cup {a},
          cnt |-> [st.cnt EXCEPT ![a] = @ + 1]]
    ELSE st

\* for i in range(lo, hi): _setup_agent_queue(_agents[i])   (1-based: lo+1..hi)
RECURSIVE setup_range(_, _, _, _, _)
setup_range(st, list, lo, hi, q) ==
    IF lo >= hi THEN st
    ELSE setup_range(setup_agent_queue(st, list[lo + 1], q), list, lo + 1, hi, q)

\* asyncio.Queue.put_nowait / put on an unbounded queue: append at the tail
queue_put(q, item) == Append(q, item)

\* a LifoQueue in place of the Queue of line 40
queue_get_lifo(q) == [item |-> q[Len(q)], rest |-> SubSeq(q, 1, Len(q) - 1)]

\* asyncio.Queue.get on the queue made at line 40: the item at the head, and
\* the queue that remains
queue_get(q) == [item |-> Head(q), rest |-> Tail(q)]

RECURSIVE SumTo(_, _)
SumTo(f, n) == IF n = 0 THEN 0 ELSE f[n] + SumTo(f, n - 1)

TotalEmitted == SumTo(emitted, MaxAgents)

(* ------------------------------ Init ----------------------------------- *)

InitMux ==
    /\ agents = <<>>
    /\ monitored_agent_ids = {}
    /\ message_queue = 0
    /\ queues = [s \in SessionIds |-> <<>>]
    /\ msg_queue = [a \in AgentIds |-> 0]
    /\ emitted = [a \in AgentIds |-> 0]
    /\ calls = 0
    /\ gen = "idle"
    /\ last_checked_index = 0
    /\ raised = "none"
    /\ task = [s \in SessionIds |-> "none"]
    /\ callbacks = {}
    /\ sent = {}
    /\ yielded = <<>>
    /\ setups = [a \in AgentIds |-> 0]
    /\ rescans = 0

(* ----------------------------- actions --------------------------------- *)

\* register_agent that only appends and leaves the subscription to the re-scan
register_agent_lazy(a) ==
    /\ a \notin Range(agents)
    /\ a = Len(agents) + 1
    /\ agents' = Append(agents, a)
    /\ UNCHANGED <<monitored_agent_ids, message_queue, queues, msg_queue, emitted,
                   calls, gen, last_checked_index, raised, task, callbacks, sent,
                   yielded, setups, rescans>>
    /\ UNCHANGED nonMuxVars

\* MyBaseReActAgent.__init__ -> GlobalAgentRegistry.register_agent(agent):
\* append, and subscribe at once when a channel exists.
register_agent(a) ==
    /\ a \notin Range(agents)
    /\ a = Len(agents) + 1
    /\ agents' = Append(agents, a)
    /\ LET st == [mq |-> msg_queue, mon |-> monitored_agent_ids, cnt |-> setups]
           nx == IF message_queue # 0 THEN setup_agent_queue(st, a, message_queue) ELSE st
       IN  /\ msg_queue' = nx.mq
           /\ monitored_agent_ids' = nx.mon
           /\ setups' = nx.cnt
    /\ UNCHANGED rescans
    /\ UNCHANGED <<message_queue, queues, emitted, calls, gen, last_checked_index,
                   raised, task, callbacks, sent, yielded>>
    /\ UNCHANGED nonMuxVars

\* agent.print(msg, last): put the event on the agent's queue unless the queue
\* is disabled. The event is <<agent, sequence number>>. Agents reply inside a
\* root task (the root agent's call and the workers it awaits).
print(a) ==
    /\ a \in Range(agents)
    /\ \E s \in SessionIds : task[s] = "running"
    /\ TotalEmitted < MaxEvents
    /\ LET e == <<a, emitted[a] + 1>>
       IN  /\ emitted' = [emitted EXCEPT ![a] = @ + 1]
           /\ queues' = IF msg_queue[a] # 0
                        THEN [queues EXCEPT ![msg_queue[a]] = queue_put(@, e)]
                        ELSE queues
           /\ sent' = IF Live /\ task[calls] = "running" THEN sent \cup {e} ELSE sent
    /\ UNCHANGED rescans
    /\ UNCHANGED <<agents, monitored_agent_ids, message_queue, msg_queue, calls, gen,
                   last_checked_index, raised, task, callbacks, yielded, setups>>
    /\ UNCHANGED nonMuxVars

\* stream_all_messages up to its first await (lines 40-52): a new queue, the
\* bookkeeping cleared, every registered agent subscribed, the root task created
\* and the done-callback attached. create_task never returns a finished task,
\* so the task.done() branch of line 49 is not taken. The previous queue object
\* is referenced by nothing afterwards; its contents are dropped.
stream_all_messages ==
    /\ ~Live
    /\ calls < MaxSessions
    /\ calls' = calls + 1
    /\ message_queue' = calls + 1
    /\ queues' = [s \in SessionIds |-> <<>>]
    /\ LET st == [mq |-> msg_queue, mon |-> {}, cnt |-> [a \in AgentIds |-> 0]]
           nx == setup_range(st, agents, 0, Len(agents), calls + 1)
       IN  /\ msg_queue' = nx.mq
           /\ monitored_agent_ids' = nx.mon
           /\ setups' = nx.cnt
    /\ last_checked_index' = Len(agents)
    /\ task' = [s \in SessionIds |->
                   IF s = calls + 1 THEN "running"
                   ELSE IF task[s] = "running" THEN "running"
                   ELSE IF s \in callbacks THEN "finished" ELSE "none"]
    /\ gen' = "wait"
    /\ raised' = "none"
    /\ sent' = {}
    /\ yielded' = <<>>
    /\ rescans' = 0
    /\ UNCHANGED <<agents, emitted, callbacks>>
    /\ UNCHANGED nonMuxVars

\* the root task of call s finishes: normally, by raising, or cancelled. asyncio
\* then schedules its done-callbacks (call_soon); they run in a later step.
\* Only the latest call's generator can still read the task's outcome.
root_task_done(s, how) ==
    /\ task[s] = "running"
    /\ task' = [task EXCEPT ![s] = IF s = calls THEN how ELSE "finished"]
    /\ callbacks' = callbacks \cup {s}
    /\ UNCHANGED rescans
    /\ UNCHANGED <<agents, monitored_agent_ids, message_queue, queues, msg_queue,
                   emitted, calls, gen, last_checked_index, raised, sent, yielded,
                   setups>>
    /\ UNCHANGED nonMuxVars

\* lambda _: cls._message_queue.put_nowait(end_signal)   (line 52)
\* cls._message_queue is read when the callback runs. On None the call raises
\* AttributeError inside the callback, which the event loop logs.
done_callback(s) ==
    /\ s \in callbacks
    /\ callbacks' = callbacks \ {s}
    /\ queues' = IF message_queue # 0
                 THEN [queues EXCEPT ![message_queue] = queue_put(@, end_signal)]
                 ELSE queues
    /\ UNCHANGED rescans
    /\ UNCHANGED <<agents, monitored_agent_ids, message_queue, msg_queue, emitted,
                   calls, gen, last_checked_index, raised, task, sent, yielded,
                   setups>>
    /\ UNCHANGED nonMuxVars

\* wait_for(queue.get()) returns an event: yield it (lines 56, 70-74); the
\* consumer takes it and asks for the next one, which resumes the loop.
yield_event ==
    /\ gen = "wait"
    /\ message_queue # 0
    /\ queues[message_queue] # <<>>
    /\ queue_get(queues[message_queue]).item # end_signal
    /\ yielded' = Append(yielded, queue_get(queues[message_queue]).item)
    /\ queues' = [queues EXCEPT ![message_queue] = queue_get(@).rest]
    /\ UNCHANGED rescans
    /\ UNCHANGED <<agents, monitored_agent_ids, message_queue, msg_queue, emitted,
                   calls, gen, last_checked_index, raised, task, callbacks, sent,
                   setups>>
    /\ UNCHANGED nonMuxVars

\* wait_for(queue.get()) returns the end signal: break, then lines 76-81.
\* task.exception() returns None (teardown follows), returns the root task's
\* exception (raised, no teardown), raises CancelledError for a cancelled task
\* and InvalidStateError for a task that is not done.
end_of_stream ==
    /\ gen = "wait"
    /\ message_queue # 0
    /\ queues[message_queue] # <<>>
    /\ queue_get(queues[message_queue]).item = end_signal
    /\ queues' = [queues EXCEPT ![message_queue] = queue_get(@).rest]
    /\ IF task[calls] = "ok"
       THEN /\ gen' = "ended"
            /\ message_queue' = 0
            /\ monitored_agent_ids' = {}
            /\ UNCHANGED raised
       ELSE /\ gen' = "raised"
            /\ raised' = CASE task[calls] = "exc" -> "root exception"
                           [] task[calls] = "cancelled" -> "CancelledError"
                           [] OTHER -> "InvalidStateError"
            /\ UNCHANGED <<message_queue, monitored_agent_ids>>
    /\ UNCHANGED rescans
    /\ UNCHANGED <<agents, msg_queue, emitted, calls, last_checked_index, task,
                   callbacks, sent, yielded, setups>>
    /\ UNCHANGED nonMuxVars

\* a timeout that loses the item the cancelled get() had been handed
timeout_loses_item ==
    /\ gen = "wait"
    /\ message_queue # 0
    /\ queues' = [queues EXCEPT ![message_queue] = IF @ = <<>> THEN @ ELSE Tail(@)]
    /\ last_checked_index' = IF Len(agents) > last_checked_index
                             THEN Len(agents) ELSE last_checked_index
    /\ rescans' = IF Len(agents) > last_checked_index THEN rescans + 1 ELSE rescans
    /\ UNCHANGED <<agents, monitored_agent_ids, message_queue, msg_queue, emitted,
                   calls, gen, raised, task, callbacks, sent, yielded, setups>>
    /\ UNCHANGED nonMuxVars

\* asyncio.TimeoutError branch (lines 57-65): subscribe the agents registered
\* since the last scan and advance last_checked_index. The lock is uncontended.
timeout ==
    /\ gen = "wait"
    /\ LET st == [mq |-> msg_queue, mon |-> monitored_agent_ids, cnt |-> setups]
           nx == IF Len(agents) > last_checked_index
                 THEN setup_range(st, agents, last_checked_index, Len(agents),
                                  message_queue)
                 ELSE st
       IN  /\ msg_queue' = nx.mq
           /\ monitored_agent_ids' = nx.mon
           /\ setups' = nx.cnt
    /\ last_checked_index' = IF Len(agents) > last_checked_index
                             THEN Len(agents) ELSE last_checked_index
    /\ rescans' = IF Len(agents) > last_checked_index THEN rescans + 1 ELSE rescans
    /\ UNCHANGED <<agents, message_queue, queues, emitted, calls, gen, raised, task,
                   callbacks, sent, yielded>>
    /\ UNCHANGED nonMuxVars

\* the consumer stops iterating: GeneratorExit is thrown at the yield (or its
\* task is cancelled at the await). stream_all_messages has no
\* try/finally, so nothing else runs.
abandon ==
    /\ Live
    /\ gen' = "closed"
    /\ UNCHANGED rescans
    /\ UNCHANGED <<agents, monitored_agent_ids, message_queue, queues, msg_queue,
                   emitted, calls, last_checked_index, raised, task, callbacks,
                   sent, yielded, setups>>
    /\ UNCHANGED nonMuxVars

NextMux ==
    \/ \E a \in AgentIds : register_agent(a)
    \/ \E a \in AgentIds : print(a)
    \/ stream_all_messages
    \/ \E s \in SessionIds, how \in {"ok", "exc", "cancelled"} : root_task_done(s, how)
    \/ \E s \in SessionIds : done_callback(s)
    \/ yield_event
    \/ end_of_stream
    \/ timeout
    \/ abandon

(***************************************************************************)
(* Part 2: cumulative snapshots to increments                              *)
(***************************************************************************)

Alphabet == {"a", "b"}
AgentNames == {"Ari", "Planning"}
ContentTypes == {"text", "thinking"}

\* all strings over Alphabet of length at most n
RECURSIVE StringsUpTo(_)
StringsUpTo(n) ==
    IF n = 0 THEN {<<>>}
    ELSE LET shorter == StringsUpTo(n - 1)
         IN  shorter \cup {Append(w, c) : w \in {x \in shorter : Len(x) = n - 1}, c \in Alphabet}

Strings == StringsUpTo(MaxStrLen)

\* str.startswith
IsPrefix(p, w) == Len(p) <= Len(w) /\ SubSeq(w, 1, Len(p)) = p

\* "".join(chunks)
RECURSIVE Join(_)
Join(chunks) == IF chunks = <<>> THEN <<>> ELSE Head(chunks) \o Join(Tail(chunks))

\* the Python slice full_text[n:]
SliceFrom(full_text, n) == SubSeq(full_text, n + 1, Len(full_text))

\* get_new_content that forgets to record the new length
get_new_content_no_update(displayed_len, full_text) ==
    IF Len(full_text) <= displayed_len
    THEN [new_content |-> <<>>, displayed_len |-> displayed_len]
    ELSE [new_content |-> SliceFrom(full_text, displayed_len),
          displayed_len |-> displayed_len]

\* get_new_content without the guard of line 155
get_new_content_unguarded(displayed_len, full_text) ==
    [new_content |-> SliceFrom(full_text, displayed_len),
     displayed_len |-> Len(full_text)]

\* ContentTracker.get_new_content: the value returned and the length recorded
\* afterwards, from the length recorded before and the cumulative text
get_new_content(displayed_len, full_text) ==
    IF Len(full_text) <= displayed_len
    THEN [new_content |-> <<>>, displayed_len |-> displayed_len]
    ELSE [new_content |-> SliceFrom(full_text, displayed_len),
          displayed_len |-> Len(full_text)]

\* _record_streaming_data, text and thinking alike: the chunk list after a
\* snapshot `current`
record_increment(chunks, current) ==
    LET existing == Join(chunks)
    IN  IF current # <<>> /\ Len(current) > Len(existing)
        THEN Append(chunks, SliceFrom(current, Len(existing)))
        ELSE chunks

TrackKeys == AgentNames \X ContentTypes
RecordKeys == {<<"call", t>> : t \in ContentTypes}
Keys == TrackKeys \cup RecordKeys

InitAcc ==
    /\ unit \in {"ContentTracker", "StreamingReActAgent"}
    /\ displayed_lengths = [k \in TrackKeys |-> 0]
    /\ returned = <<>>
    /\ last_call = [key |-> <<"none", "none">>, full_text |-> <<>>, before |-> 0]
    /\ current_streaming_data = <<>>
    /\ current_streaming_complete = FALSE
    /\ snapshot = [k \in Keys |-> <<>>]
    /\ delivered = [k \in Keys |-> <<>>]
    /\ growing = [k \in Keys |-> TRUE]
    /\ feeds = 0
    /\ msg_id = [n \in AgentNames |-> 0]
    /\ turn_snapshot = [k \in TrackKeys |-> <<>>]
    /\ turn_delivered = [k \in TrackKeys |-> <<>>]
    /\ turn_growing = [k \in TrackKeys |-> TRUE]
    /\ reader_pc = "none"
    /\ reader_start = "none"
    /\ recorded_count = 0
    /\ reader_yielded = <<>>
    /\ final_recorded = FALSE

\* tracker.get_new_content(agent_name, content_type, full_text)
GetNewContent(agent_name, content_type, full_text) ==
    LET k == <<agent_name, content_type>>
        r == get_new_content(displayed_lengths[k], full_text)
    IN  /\ unit = "ContentTracker"
        /\ feeds < MaxFeeds
        /\ feeds' = feeds + 1
        /\ displayed_lengths' = [displayed_lengths EXCEPT ![k] = r.displayed_len]
        /\ returned' = r.new_content
        /\ last_call' = [key |-> k, full_text |-> full_text, before |-> displayed_lengths[k]]
        /\ growing' = [growing EXCEPT ![k] = @ /\ IsPrefix(snapshot[k], full_text)]
        /\ snapshot' = [snapshot EXCEPT ![k] = full_text]
        /\ delivered' = [delivered EXCEPT ![k] = @ \o r.new_content]
        /\ msg_id' = [msg_id EXCEPT ![agent_name] = IF @ = 0 THEN 1 ELSE @]
        /\ turn_growing' = [turn_growing EXCEPT ![k] = @ /\ IsPrefix(turn_snapshot[k], full_text)]
        /\ turn_snapshot' = [turn_snapshot EXCEPT ![k] = full_text]
        /\ turn_delivered' = [turn_delivered EXCEPT ![k] = @ \o r.new_content]
        /\ UNCHANGED <<unit, current_streaming_data, current_streaming_complete>>
        /\ UNCHANGED readerVars
    /\ UNCHANGED nonAccVars

\* run_once, lines 480-485: the next msg of the stream is a new message of the
\* agent (a new Msg.id).  The loop passes msg.content and msg.name to
\* format_content_blocks; nothing in it looks at msg.id or calls tracker.reset().
NewMessage(agent_name) ==
    /\ unit = "ContentTracker"
    /\ msg_id[agent_name] > 0
    /\ \E t \in ContentTypes : turn_snapshot[<<agent_name, t>>] # <<>>
    /\ feeds < MaxFeeds
    /\ msg_id' = [msg_id EXCEPT ![agent_name] = @ + 1]
    /\ turn_snapshot' = [k \in TrackKeys |-> IF k[1] = agent_name THEN <<>> ELSE turn_snapshot[k]]
    /\ turn_delivered' = [k \in TrackKeys |-> IF k[1] = agent_name THEN <<>> ELSE turn_delivered[k]]
    /\ turn_growing' = [k \in TrackKeys |-> IF k[1] = agent_name THEN TRUE ELSE turn_growing[k]]
    /\ UNCHANGED <<unit, displayed_lengths, returned, last_call, current_streaming_data,
                   current_streaming_complete, snapshot, delivered, growing, feeds>>
    /\ UNCHANGED readerVars
    /\ UNCHANGED nonAccVars

\* StreamingReActAgent.__call__ up to the await of the parent call (lines 214-220)
CallBegin ==
    /\ unit = "StreamingReActAgent"
    /\ current_streaming_data = <<>>
    /\ feeds < MaxFeeds
    /\ current_streaming_data' = <<[text |-> <<>>, thinking |-> <<>>]>>
    /\ current_streaming_complete' = FALSE
    /\ snapshot' = [k \in Keys |-> <<>>]
    /\ delivered' = [k \in Keys |-> <<>>]
    /\ growing' = [k \in Keys |-> TRUE]
    /\ UNCHANGED <<unit, displayed_lengths, returned, last_call, feeds>>
    /\ UNCHANGED turnVars
    /\ final_recorded' = FALSE
    /\ UNCHANGED <<reader_pc, reader_start, recorded_count, reader_yielded>>
    /\ UNCHANGED nonAccVars

\* the (text, thinking) contents of the messages recorded: a text block, a
\* thinking block, or both; a kind without a block reads as the empty string
RecordInputs ==
    {p \in Strings \X Strings : p[1] = <<>> \/ p[2] = <<>> \/ p[1] = p[2]}

\* print(msg, last) -> _record_streaming_data(msg, last): msg carries the
\* cumulative text and thinking of the message
RecordStreamingData(current_text, current_thinking, last) ==
    /\ unit = "StreamingReActAgent"
    /\ current_streaming_data # <<>>
    /\ feeds < MaxFeeds
    /\ feeds' = feeds + 1
    /\ LET text == record_increment(current_streaming_data[1].text, current_text)
           thinking == record_increment(current_streaming_data[1].thinking, current_thinking)
       IN  /\ current_streaming_data' = <<[text |-> text, thinking |-> thinking]>>
           /\ delivered' = [delivered EXCEPT ![<<"call", "text">>] = Join(text),
                                             ![<<"call", "thinking">>] = Join(thinking)]
    /\ current_streaming_complete' = (current_streaming_complete \/ last)
    /\ growing' = [growing EXCEPT
                      ![<<"call", "text">>] =
                          @ /\ (current_text = <<>> \/ IsPrefix(snapshot[<<"call", "text">>], current_text)),
                      ![<<"call", "thinking">>] =
                          @ /\ (current_thinking = <<>>
                                \/ IsPrefix(snapshot[<<"call", "thinking">>], current_thinking))]
    /\ snapshot' = [snapshot EXCEPT
                       ![<<"call", "text">>] = IF current_text = <<>> THEN @ ELSE current_text,
                       ![<<"call", "thinking">>] = IF current_thinking = <<>> THEN @ ELSE current_thinking]
    /\ UNCHANGED <<unit, displayed_lengths, returned, last_call>>
    /\ UNCHANGED turnVars
    /\ final_recorded' = (final_recorded \/ last)
    /\ UNCHANGED <<reader_pc, reader_start, recorded_count, reader_yielded>>
    /\ UNCHANGED nonAccVars

\* the finally block of __call__ (lines 229-232)
CallEnd ==
    /\ unit = "StreamingReActAgent"
    /\ current_streaming_data # <<>>
    /\ current_streaming_data' = <<>>
    /\ current_streaming_complete' = FALSE
    /\ UNCHANGED <<unit, displayed_lengths, returned, last_call, snapshot, delivered,
                   growing, feeds>>
    /\ UNCHANGED turnVars
    /\ UNCHANGED readerVars
    /\ UNCHANGED nonAccVars

\* one pass of the loop of _get_streaming_content (lines 196-206) from the
\* test of the while condition to its next suspension: the lock is free (its
\* holders never await), the new items are yielded, and the generator sleeps
\* unless the call is marked complete, in which case the while condition is
\* false and it returns. With _current_streaming_data None the subscript
\* raises TypeError.
reader_pass(count, chunks) ==
    IF current_streaming_data = <<>>
    THEN [pc |-> "TypeError", count |-> count, chunks |-> chunks]
    ELSE LET current_items == current_streaming_data[1].text
             fresh == IF count < Len(current_items)
                      THEN SubSeq(current_items, count + 1, Len(current_items))
                      ELSE <<>>
             counted == IF count < Len(current_items) THEN Len(current_items) ELSE count
         IN  [pc |-> IF current_streaming_complete THEN "returned" ELSE "sleeping",
              count |-> counted, chunks |-> chunks \o fresh]

\* the first iteration of response.get_text_stream(): lines 192-193 return at
\* once when no call is in progress. A reader holding the StreamingResponse
\* starts after the call; one holding the agent can start during it.
ReaderStart ==
    /\ unit = "StreamingReActAgent"
    /\ reader_pc = "none"
    /\ feeds > 0
    /\ IF current_streaming_data = <<>>
       THEN /\ reader_start' = "after"
            /\ reader_pc' = "returned"
            /\ UNCHANGED <<recorded_count, reader_yielded>>
       ELSE LET pass == reader_pass(0, <<>>)
            IN  /\ reader_start' = "during"
                /\ reader_pc' = pass.pc
                /\ recorded_count' = pass.count
                /\ reader_yielded' = pass.chunks
    /\ UNCHANGED final_recorded
    /\ UNCHANGED <<unit, displayed_lengths, returned, last_call, current_streaming_data,
                   current_streaming_complete, snapshot, delivered, growing, feeds>>
    /\ UNCHANGED turnVars
    /\ UNCHANGED nonAccVars

\* asyncio.sleep(0.01) is over (line 206): the while condition is tested again
ReaderWake ==
    /\ unit = "StreamingReActAgent"
    /\ reader_pc = "sleeping"
    /\ LET pass == reader_pass(recorded_count, reader_yielded)
       IN  /\ reader_pc' = pass.pc
           /\ recorded_count' = pass.count
           /\ reader_yielded' = pass.chunks
    /\ UNCHANGED <<reader_start, final_recorded>>
    /\ UNCHANGED <<unit, displayed_lengths, returned, last_call, current_streaming_data,
                   current_streaming_complete, snapshot, delivered, growing, feeds>>
    /\ UNCHANGED turnVars
    /\ UNCHANGED nonAccVars

NextAcc ==
    \/ \E n \in AgentNames, t \in ContentTypes, w \in Strings : GetNewContent(n, t, w)
    \/ \E n \in AgentNames : NewMessage(n)
    \/ CallBegin
    \/ \E p \in RecordInputs, last \in BOOLEAN : RecordStreamingData(p[1], p[2], last)
    \/ CallEnd
    \/ ReaderStart
    \/ ReaderWake


(***************************************************************************)
(* Part 3  ContentTracker.get_tool_param_changes (src/simple.py 172-201)   *)
(***************************************************************************)

ToolIds == {"t1", "t2"}
ParamKeys == {"k1", "k2"}

\* a value of the argument map: a Python str, or a value of another type
\* (int, list, ...) given by its str(); the characters of Alphabet stand for
\* any characters
StrValue(w) == [is_str |-> TRUE, s |-> w]
OtherValue(w) == [is_str |-> FALSE, s |-> w]
ParamValues ==
    {StrValue(w) : w \in Strings} \cup {OtherValue(w) : w \in {x \in Strings : Len(x) = 1}}

\* str(value)
str(value) == value.s

\* the argument maps passed: no key, one key, or both keys with one value
ParamDicts ==
    {<<>>}
    \cup {[k \in {key} |-> v] : key \in ParamKeys, v \in ParamValues}
    \cup {[k \in ParamKeys |-> v] : v \in ParamValues}

\* old_state.get(key, "")
dict_get(d, key, default) == IF key \in DOMAIN d THEN d[key] ELSE default

\* get_tool_param_changes that returns the full value whenever it changed
get_tool_param_changes_full(old_state, current_params) ==
    LET changed == {key \in DOMAIN current_params :
                        dict_get(old_state, key, <<>>) # str(current_params[key])}
    IN  [changes |-> [key \in changed |-> current_params[key]],
         state |-> [key \in DOMAIN old_state \cup changed |->
                        IF key \in changed THEN str(current_params[key]) ELSE old_state[key]]]

\* get_tool_param_changes, lines 181-201: the dict returned and old_state
\* afterwards.  old_state only ever holds str values (line 199).
get_tool_param_changes(old_state, current_params) ==
    LET old_value(key) == dict_get(old_state, key, <<>>)
        new_value(key) == str(current_params[key])
        changed == {key \in DOMAIN current_params : old_value(key) # new_value(key)}
        incremental(key) == current_params[key].is_str /\ IsPrefix(old_value(key), new_value(key))
        emitted_keys == {key \in changed :
                            incremental(key) => Len(new_value(key)) > Len(old_value(key))}
    IN  [changes |-> [key \in emitted_keys |->
                         IF incremental(key)
                         THEN StrValue(SliceFrom(new_value(key), Len(old_value(key))))
                         ELSE current_params[key]],
         state |-> [key \in DOMAIN old_state \cup changed |->
                        IF key \in changed THEN new_value(key) ELSE old_state[key]]]

ToolParamKeys == ToolIds \X ParamKeys

InitTool ==
    /\ tool_params_state = <<>>
    /\ changes = <<>>
    /\ tool_call = [tool_id |-> "none", current_params |-> <<>>, old_state |-> <<>>]
    /\ param_value = [k \in ToolParamKeys |-> StrValue(<<>>)]
    /\ param_delivered = [k \in ToolParamKeys |-> <<>>]
    /\ param_growing = [k \in ToolParamKeys |-> TRUE]
    /\ tool_calls = 0

\* tracker.get_tool_param_changes(tool_id, current_params)
GetToolParamChanges(tool_id, current_params) ==
    LET old_state == IF tool_id \in DOMAIN tool_params_state
                     THEN tool_params_state[tool_id] ELSE <<>>
        r == get_tool_param_changes(old_state, current_params)
        fed == DOMAIN current_params
    IN  /\ tool_calls < MaxFeeds
        /\ tool_calls' = tool_calls + 1
        /\ tool_params_state' =
               [t \in DOMAIN tool_params_state \cup {tool_id} |->
                   IF t = tool_id THEN r.state ELSE tool_params_state[t]]
        /\ changes' = r.changes
        /\ tool_call' = [tool_id |-> tool_id, current_params |-> current_params,
                         old_state |-> old_state]
        /\ param_growing' =
               [k \in ToolParamKeys |->
                   IF k[1] = tool_id /\ k[2] \in fed
                   THEN /\ param_growing[k]
                        /\ current_params[k[2]].is_str
                        /\ IsPrefix(str(param_value[k]), str(current_params[k[2]]))
                   ELSE param_growing[k]]
        /\ param_value' =
               [k \in ToolParamKeys |->
                   IF k[1] = tool_id /\ k[2] \in fed THEN current_params[k[2]]
                   ELSE param_value[k]]
        /\ param_delivered' =
               [k \in ToolParamKeys |->
                   IF k[1] = tool_id /\ k[2] \in DOMAIN r.changes
                   THEN param_delivered[k] \o str(r.changes[k[2]])
                   ELSE param_delivered[k]]
        /\ UNCHANGED nonToolVars

NextTool ==
    \E tool_id \in ToolIds, current_params \in ParamDicts :
        GetToolParamChanges(tool_id, current_params)


(***************************************************************************)
(* Part 4  TaskDecomposer, TaskExecutor, handle_complex_task               *)
(*         (src/core/handoffs.py) and AriAgent.__call__                    *)
(*         (src/core/ari_agent.py)                                         *)
(***************************************************************************)

\* names a planner can give its subtasks
PlannerNames == <<"s1", "s2", "s3", "s4">>
SubtaskNames == {PlannerNames[i] : i \in 1..MaxSubtasks}

\* one element of the "subtasks" list of a planner response: a JSON object
\* with or without "name" and "description", or a value that is not an object
TaskDatas ==
    [is_object : BOOLEAN, has_name : BOOLEAN, has_description : BOOLEAN,
     name : SubtaskNames, dependencies : SUBSET SubtaskNames]

WellFormedTaskDatas ==
    {d \in TaskDatas :
        /\ d.name \notin d.dependencies
        /\ (~d.is_object \/ ~d.has_name \/ ~d.has_description) => d.dependencies = {}
        /\ ~d.is_object => (d.has_name /\ d.has_description)
        /\ ~d.has_name => d.has_description}

RECURSIVE TaskDataLists(_)
TaskDataLists(n) ==
    IF n = 0 THEN {<<>>}
    ELSE LET shorter == TaskDataLists(n - 1)
         IN  shorter \cup
             {Append(l, d) : l \in {x \in shorter : Len(x) = n - 1},
                             d \in WellFormedTaskDatas}

DistinctNames(l) == \A i, j \in DOMAIN l : i # j => l[i].name # l[j].name

\* the loop of lines 78-93 stops at the first element it cannot read, so the
\* elements after it play no part: lists are taken up to that element
EndsAtFirstUnreadable(l) ==
    \A i \in DOMAIN l :
        i < Len(l) => (l[i].is_object /\ l[i].has_name /\ l[i].has_description)

\* response.text of the planner: text that is not JSON, JSON whose top-level
\* value is not an object, an object without "subtasks", an object with a
\* "subtasks" list
PlannerResponses ==
    {[json |-> FALSE, top_object |-> FALSE, has_subtasks |-> FALSE, subtasks |-> <<>>],
     [json |-> TRUE, top_object |-> FALSE, has_subtasks |-> FALSE, subtasks |-> <<>>],
     [json |-> TRUE, top_object |-> TRUE, has_subtasks |-> FALSE, subtasks |-> <<>>]}
    \cup {[json |-> TRUE, top_object |-> TRUE, has_subtasks |-> TRUE, subtasks |-> l] :
             l \in {x \in TaskDataLists(MaxSubtasks) :
                       DistinctNames(x) /\ EndsAtFirstUnreadable(x)}}

\* _create_default_plan (lines 109-163)
create_default_plan ==
    [outcome |-> "default",
     exception |-> "none",
     subtasks |-> <<"analyze", "execute", "summarize">>,
     metadata_dict |-> [n \in {"analyze", "execute", "summarize"} |->
                           IF n = "analyze" THEN {}
                           ELSE IF n = "execute" THEN {"analyze"} ELSE {"execute"}]]

\* an exception that leaves decompose_task
decompose_raises(e) ==
    [outcome |-> "raise", exception |-> e, subtasks |-> <<>>, metadata_dict |-> <<>>]

\* decompose_task with an except clause that re-raises
decompose_task_reraise(response) ==
    IF ~response.json THEN decompose_raises("JSONDecodeError")
    ELSE IF ~response.top_object THEN decompose_raises("AttributeError")
    ELSE LET l == response.subtasks
             bad == {i \in DOMAIN l : ~l[i].is_object \/ ~l[i].has_name \/ ~l[i].has_description}
         IN  IF bad = {}
             THEN [outcome |-> "plan", exception |-> "none",
                   subtasks |-> [i \in DOMAIN l |-> l[i].name],
                   metadata_dict |-> [n \in {l[i].name : i \in DOMAIN l} |->
                       (CHOOSE d \in {l[i] : i \in DOMAIN l} : d.name = n).dependencies]]
             ELSE decompose_raises("KeyError")

\* TaskDecomposer.decompose_task from response.text on (lines 70-107):
\* json.loads, plan_data.get("subtasks", []), task_data["name"],
\* task_data["description"]; only JSONDecodeError and KeyError are caught
decompose_task(response) ==
    IF ~response.json THEN create_default_plan
    ELSE IF ~response.top_object THEN decompose_raises("AttributeError")
    ELSE LET l == response.subtasks
             bad == {i \in DOMAIN l : ~l[i].is_object \/ ~l[i].has_name \/ ~l[i].has_description}
             first == CHOOSE i \in bad : \A j \in bad : i <= j
         IN  IF bad = {}
             THEN [outcome |-> "plan", exception |-> "none",
                   subtasks |-> [i \in DOMAIN l |-> l[i].name],
                   metadata_dict |-> [n \in {l[i].name : i \in DOMAIN l} |->
                       (CHOOSE d \in {l[i] : i \in DOMAIN l} : d.name = n).dependencies]]
             ELSE IF ~l[first].is_object THEN decompose_raises("TypeError")
             ELSE create_default_plan


\* message.content as analyze_task_type looks at it: its length after strip()
\* and whether it holds one of the instruction words
Contents ==
    [length : {"empty", "short", "long"}, instruction_word : BOOLEAN]
    \ {[length |-> "empty", instruction_word |-> TRUE]}

\* the summary prompt built by _generate_final_response (lines 427-436)
summary_prompt == [length |-> "long", instruction_word |-> TRUE]

\* AriAgent.analyze_task_type (lines 151-178)
analyze_task_type(content) ==
    IF content.length = "empty" THEN "chat"
    ELSE IF content.length = "short"
         THEN (IF content.instruction_word THEN "complex_task" ELSE "chat")
         ELSE "complex_task"

InitPlan ==
    /\ pc = "idle"
    /\ entry = "none"
    /\ last_response = [json |-> FALSE, top_object |-> FALSE, has_subtasks |-> FALSE,
                        subtasks |-> <<>>]
    /\ plan = <<>>
    /\ metadata_dict = <<>>
    /\ next_subtask = 0
    /\ current_subtask = <<>>
    /\ status = <<>>
    /\ execution_results = {}
    /\ exception = "none"
    /\ classifications = 0
    /\ decomposition_rounds = 0
    /\ aggregation_calls = 0

\* AriAgent.__call__(message), lines 180-192: classify, then either the
\* parent's reply or handle_complex_task
AriAgentCall(content) ==
    /\ pc = "idle"
    /\ entry' = "AriAgent.__call__"
    /\ classifications' = classifications + 1
    /\ pc' = IF analyze_task_type(content) = "chat" THEN "reply" ELSE "decompose"
    /\ UNCHANGED <<last_response, plan, metadata_dict, next_subtask, current_subtask,
                   status, execution_results, exception, decomposition_rounds,
                   aggregation_calls>>
    /\ UNCHANGED nonPlanVars

\* AriAgent.__call__, lines 189 and 194-195: super().__call__ answers a chat
\* message and the response is returned
ChatReply ==
    /\ pc = "reply"
    /\ pc' = "returned"
    /\ UNCHANGED <<entry, last_response, plan, metadata_dict, next_subtask, current_subtask,
                   status, execution_results, exception, classifications,
                   decomposition_rounds, aggregation_calls>>
    /\ UNCHANGED nonPlanVars

\* a caller that uses TaskDecomposer and TaskExecutor directly:
\* plan, metadata = await decomposer.decompose_task(...); executor.execute_plan(...)
DirectCall ==
    /\ pc = "idle"
    /\ entry' = "TaskExecutor.execute_plan"
    /\ pc' = "decompose"
    /\ UNCHANGED <<last_response, plan, metadata_dict, next_subtask, current_subtask,
                   status, execution_results, exception, classifications,
                   decomposition_rounds, aggregation_calls>>
    /\ UNCHANGED nonPlanVars

\* decompose_task: the model call and the parsing of its response
DecomposeTask(response) ==
    LET r == decompose_task(response)
    IN  /\ pc = "decompose"
        /\ decomposition_rounds' = decomposition_rounds + 1
        /\ last_response' = response
        /\ IF r.outcome = "raise"
           THEN /\ pc' = "raised"
                /\ exception' = r.exception
                /\ UNCHANGED <<plan, metadata_dict, status>>
           ELSE /\ pc' = IF entry = "AriAgent.__call__" \/ aggregation_calls > 0
                         THEN "log" ELSE "execute_plan"
                /\ plan' = r.subtasks
                /\ metadata_dict' = r.metadata_dict
                /\ status' = [n \in Range(r.subtasks) |-> "Pending"]
                /\ UNCHANGED exception
        /\ UNCHANGED <<entry, next_subtask, current_subtask, execution_results,
                       classifications, aggregation_calls>>
        /\ UNCHANGED nonPlanVars

\* handle_complex_task, lines 467-473: the decomposition log is added through
\* self.parent_agent, and the function has no name self
DecompositionLog ==
    /\ pc = "log"
    /\ pc' = "raised"
    /\ exception' = "NameError"
    /\ UNCHANGED <<entry, last_response, plan, metadata_dict, next_subtask, current_subtask,
                   status, execution_results, classifications, decomposition_rounds,
                   aggregation_calls>>
    /\ UNCHANGED nonPlanVars

\* execute_plan, line 250
ExecutePlan ==
    /\ pc = "execute_plan"
    /\ execution_results' = {}
    /\ next_subtask' = 1
    /\ pc' = "subtasks"
    /\ UNCHANGED <<entry, last_response, plan, metadata_dict, current_subtask, status,
                   exception, classifications, decomposition_rounds, aggregation_calls>>
    /\ UNCHANGED nonPlanVars

\* _wait_for_dependencies (lines 335-346): its loop body is pass
wait_for_dependencies(dependencies, results) == TRUE

\* _execute_subtask up to the await of the sub-agent (lines 278-309)
StartSubtask ==
    /\ pc = "subtasks"
    /\ current_subtask = <<>>
    /\ next_subtask <= Len(plan)
    /\ LET name == plan[next_subtask]
       IN  /\ wait_for_dependencies(metadata_dict[name], execution_results)
           /\ current_subtask' = <<name>>
           /\ status' = [status EXCEPT ![name] = "Running"]
    /\ UNCHANGED <<pc, entry, last_response, plan, metadata_dict, next_subtask,
                   execution_results, exception, classifications, decomposition_rounds,
                   aggregation_calls>>
    /\ UNCHANGED nonPlanVars

\* _execute_subtask, lines 310-322: the sub-agent returned
SubtaskReturns ==
    /\ pc = "subtasks"
    /\ current_subtask # <<>>
    /\ execution_results' = execution_results \cup {current_subtask[1]}
    /\ status' = [status EXCEPT ![current_subtask[1]] = "Done"]
    /\ current_subtask' = <<>>
    /\ next_subtask' = next_subtask + 1
    /\ UNCHANGED <<pc, entry, last_response, plan, metadata_dict, exception,
                   classifications, decomposition_rounds, aggregation_calls>>
    /\ UNCHANGED nonPlanVars

\* _execute_subtask, lines 324-333: the sub-agent raised; the error is recorded
\* and re-raised, which ends execute_plan
SubtaskRaises ==
    /\ pc = "subtasks"
    /\ current_subtask # <<>>
    /\ execution_results' = execution_results \cup {current_subtask[1]}
    /\ status' = [status EXCEPT ![current_subtask[1]] = "Failed"]
    /\ current_subtask' = <<>>
    /\ pc' = "raised"
    /\ exception' = "sub-agent exception"
    /\ UNCHANGED <<entry, last_response, plan, metadata_dict, next_subtask,
                   classifications, decomposition_rounds, aggregation_calls>>
    /\ UNCHANGED nonPlanVars

\* _generate_final_response (lines 410-446): final_response = await
\* self.parent_agent(summary_msg), that is AriAgent.__call__ on the summary
\* prompt, which classifies it (lines 185-192)
GenerateFinalResponse ==
    /\ pc = "subtasks"
    /\ current_subtask = <<>>
    /\ next_subtask > Len(plan)
    /\ aggregation_calls' = aggregation_calls + 1
    /\ classifications' = classifications + 1
    /\ pc' = IF analyze_task_type(summary_prompt) = "chat" THEN "reply" ELSE "decompose"
    /\ UNCHANGED <<entry, last_response, plan, metadata_dict, next_subtask, current_subtask,
                   status, execution_results, exception, decomposition_rounds>>
    /\ UNCHANGED nonPlanVars

NextPlan ==
    \/ \E content \in Contents : AriAgentCall(content)
    \/ ChatReply
    \/ DirectCall
    \/ \E response \in PlannerResponses : DecomposeTask(response)
    \/ DecompositionLog
    \/ ExecutePlan
    \/ StartSubtask
    \/ SubtaskReturns
    \/ SubtaskRaises
    \/ GenerateFinalResponse


(***************************************************************************)
(* Part 5  create_worker and _is_task_failed (src/tools/create_worker.py)  *)
(***************************************************************************)

\* a text is a sequence of tokens: "Error" stands for a keyword in upper or
\* mixed case, "(x)" for the cross mark U+274C, "task failed" for the Chinese
\* words of the failure marker
Tokens == {"done", "error", "Error", "(x)", "task failed"}

RECURSIVE TextsUpTo(_)
TextsUpTo(n) ==
    IF n = 0 THEN {<<>>}
    ELSE LET shorter == TextsUpTo(n - 1)
         IN  shorter \cup {Append(w, c) : w \in {x \in shorter : Len(x) = n - 1}, c \in Tokens}

Texts == TextsUpTo(MaxStrLen)

\* str.lower()
lower(text) == [i \in DOMAIN text |-> IF text[i] = "Error" THEN "error" ELSE text[i]]

\* the entries of failure_keywords (lines 127-143) that the tokens can match
failure_keywords == {"error", "(x)", "task failed"}

\* _is_task_failed (lines 116-152)
is_task_failed(text_content) ==
    LET text_lower == lower(text_content)
    IN  \E i \in DOMAIN text_lower : text_lower[i] \in failure_keywords

\* the failure marker the worker is told to start with (line 48)
failure_marker == <<"(x)", "task failed">>

\* Msg.content of the worker's reply: a str, or a list of text blocks.  A block
\* is a dict {"type": "text", "text": ...} (TextBlock is a TypedDict).
WorkerContents ==
    {[is_str |-> TRUE, blocks |-> <<t>>] : t \in Texts}
    \cup {[is_str |-> FALSE, blocks |-> <<>>]}
    \cup {[is_str |-> FALSE, blocks |-> <<t>>] : t \in Texts}

\* hasattr(block, 'text') for a dict block: a key is not an attribute
hasattr_text(block) == FALSE

\* lines 89-91: result_text
result_text(content) ==
    IF content.is_str THEN content.blocks[1]
    ELSE Join([i \in DOMAIN content.blocks |->
                  IF hasattr_text(content.blocks[i]) THEN content.blocks[i] ELSE <<>>])

ExceptionMessages == {<<"timeout">>, <<"done">>}
TaskIds == 1..MaxSubtasks

\* ToolResponse(content, metadata)
ToolResponse(text, task_id, st) ==
    [text |-> text, metadata |-> [task_id |-> task_id, status |-> st]]

\* an except clause that re-raises instead of answering
create_worker_except_reraise(task_id, message) == <<>>

\* the except clause (lines 104-113): the responses it returns
create_worker_except(task_id, message) ==
    <<ToolResponse(<<"(x)", "task", ToString(task_id), "failed:">> \o message, task_id, "failed")>>

InitWorker ==
    /\ cw_pc = "idle"
    /\ cw_task_id = 0
    /\ invocations = 0
    /\ res = <<>>
    /\ raised_inside = <<>>
    /\ responses = <<>>

\* create_worker(task_id, ...) is called: lines 43-57
CreateWorker(task_id) ==
    /\ cw_pc = "idle"
    /\ cw_pc' = "constructing"
    /\ cw_task_id' = task_id
    /\ UNCHANGED <<invocations, res, raised_inside, responses>>
    /\ UNCHANGED nonWorkerVars

\* an exception in the try block leaves it (line 104)
except(message) ==
    LET out == create_worker_except(cw_task_id, message)
    IN  /\ raised_inside' = <<message>>
        /\ responses' = responses \o out
        /\ cw_pc' = IF out = <<>> THEN "raised" ELSE "returned"

\* MyBaseReActAgent(...) or the Toolkit registration raises (lines 58-78)
ConstructionRaises(message) ==
    /\ cw_pc = "constructing"
    /\ except(message)
    /\ UNCHANGED <<cw_task_id, invocations, res>>
    /\ UNCHANGED nonWorkerVars

\* res = await worker(...) is entered (line 80)
InvokeWorker ==
    /\ cw_pc = "constructing"
    /\ cw_pc' = "running"
    /\ invocations' = invocations + 1
    /\ UNCHANGED <<cw_task_id, res, raised_inside, responses>>
    /\ UNCHANGED nonWorkerVars

\* the worker raises (line 80)
WorkerRaises(message) ==
    /\ cw_pc = "running"
    /\ except(message)
    /\ UNCHANGED <<cw_task_id, invocations, res>>
    /\ UNCHANGED nonWorkerVars

\* the worker returns res; lines 82-102
WorkerReturns(content) ==
    /\ cw_pc = "running"
    /\ res' = <<content>>
    /\ responses' = Append(responses,
           ToolResponse(Join(content.blocks), cw_task_id,
                        IF is_task_failed(result_text(content)) THEN "failed" ELSE "success"))
    /\ cw_pc' = "returned"
    /\ UNCHANGED <<cw_task_id, invocations, raised_inside>>
    /\ UNCHANGED nonWorkerVars

NextWorker ==
    \/ \E task_id \in TaskIds : CreateWorker(task_id)
    \/ \E message \in ExceptionMessages : ConstructionRaises(message)
    \/ InvokeWorker
    \/ \E message \in ExceptionMessages : WorkerRaises(message)
    \/ \E content \in WorkerContents : WorkerReturns(content)


(***************************************************************************)
(* Part 6  MessageRouter._do_route and its handlers                        *)
(*         (src/ui/message_router.py)                                      *)
(***************************************************************************)

\* task ids a message can carry: 0 stands for a missing id, MaxSubtasks + 1
\* lies beyond every plan
RoutedTaskIds == 0..(MaxSubtasks + 1)

\* _extract_text(msg.content) of the worker messages routed: none, one without
\* and one with a failure keyword
RouterTexts == {<<>>, <<"done">>, <<"Error">>}

\* a worker message as the consumers read it: the task id at the end of its
\* name, its text, metadata["status"], whether a tool_result block of its
\* content carries metadata status "failed", and whether its first block is a
\* tool_use block
WorkerMessages ==
    {msg \in [task_id : RoutedTaskIds, text : RouterTexts,
              metadata_status : {"absent", "success", "failed"},
              tool_result_failed : BOOLEAN, tool_use_first : BOOLEAN] :
        \* what no consumer reads of such a message is left at its default
        /\ msg.text = <<>> => msg.metadata_status = "absent" /\ ~msg.tool_result_failed
        /\ msg.text # <<>> => ~msg.tool_use_first}

\* MessageRouter._is_task_failed (lines 303-340)
router_is_task_failed(text_content) ==
    LET text_lower == lower(text_content)
    IN  \E i \in DOMAIN text_lower : text_lower[i] \in failure_keywords

\* _handle_worker, lines 246-273: is_failed
is_failed(msg) ==
    IF msg.metadata_status = "failed" THEN TRUE
    ELSE IF msg.tool_result_failed THEN TRUE
    ELSE router_is_task_failed(msg.text)

no_final == [status |-> 0, text |-> <<>>, metadata_status |-> "absent",
             tool_result_failed |-> FALSE]

\* all(step["status"] in [3, 4] for step in self.steps)   (router, line 295)
all_in_3_4(the_steps) == \A i \in DOMAIN the_steps : the_steps[i] \in {3, 4}

\* self.steps and all(step["status"] == 3 for step in self.steps)
\* (manager, line 262)
all_equal_3(the_steps) ==
    the_steps # <<>> /\ \A i \in DOMAIN the_steps : the_steps[i] = 3

\* AriAgentManager._handle_message on a worker message (lines 142-265): the
\* steps it leaves and whether it announces completion
manager_handle_worker(the_steps, msg, last) ==
    IF msg.text = <<>> /\ ~msg.tool_use_first
    THEN [steps |-> the_steps, all_done |-> FALSE]
    ELSE IF msg.task_id = 0
    THEN [steps |-> the_steps, all_done |-> FALSE]
    ELSE LET in_range == the_steps # <<>> /\ msg.task_id <= Len(the_steps)
             after == IF in_range
                      THEN [the_steps EXCEPT ![msg.task_id] = IF last THEN 3 ELSE 2]
                      ELSE the_steps
         IN  [steps |-> after, all_done |-> last /\ all_equal_3(after)]

\* AriAgentManager._handle_message on a create_worker tool_use of the root
\* agent (lines 165-178)
manager_handle_main_agent(the_steps, task_id, task_desc) ==
    IF task_desc /\ task_id # 0 /\ the_steps # <<>> /\ task_id <= Len(the_steps)
    THEN [the_steps EXCEPT ![task_id] = 1]
    ELSE the_steps

InitRouter ==
    /\ steps = <<>>
    /\ planning_completed = FALSE
    /\ last_final = no_final
    /\ planner_final = FALSE
    /\ manager_steps = <<>>
    /\ notified = [event |-> "none", router |-> FALSE, manager |-> FALSE]

\* a final message named "Planning" whose text holds a JSON object with n
\* steps of status 0: _handle_planning (lines 182-217), and the manager's
\* branch for it (lines 194-222)
HandlePlanning(n) ==
    /\ IF planning_completed
       THEN UNCHANGED <<steps, planning_completed>>
       ELSE /\ steps' = [i \in 1..n |-> 0]
            /\ planning_completed' = TRUE
    /\ manager_steps' = [i \in 1..n |-> 0]
    /\ notified' = [event |-> "planning", router |-> FALSE, manager |-> FALSE]
    /\ last_final' = no_final
    /\ UNCHANGED planner_final
    /\ UNCHANGED nonRouterVars

\* a message of the root agent whose first block is a create_worker tool_use
\* with input task_id, with or without a task_description so far:
\* _handle_main_agent (lines 169-180) and the manager's branch
HandleMainAgent(task_id, task_desc) ==
    /\ steps' = IF task_id # 0 /\ steps # <<>> /\ task_id <= Len(steps)
                THEN [steps EXCEPT ![task_id] = 1]
                ELSE steps
    /\ manager_steps' = manager_handle_main_agent(manager_steps, task_id, task_desc)
    /\ notified' = [event |-> "main", router |-> FALSE, manager |-> FALSE]
    /\ last_final' = no_final
    /\ UNCHANGED <<planning_completed, planner_final>>
    /\ UNCHANGED nonRouterVars

\* a worker message: _handle_worker (lines 219-297) and the manager's branch
HandleWorker(msg, last) ==
    LET handled == /\ msg.text # <<>>
                   /\ steps # <<>>
                   /\ msg.task_id # 0
                   /\ msg.task_id <= Len(steps)
        st == IF is_failed(msg) THEN 4 ELSE 3
        after == IF ~handled THEN steps
                 ELSE IF ~last THEN [steps EXCEPT ![msg.task_id] = 2]
                 ELSE [steps EXCEPT ![msg.task_id] = st]
        manager == manager_handle_worker(manager_steps, msg, last)
    IN  /\ steps' = after
        /\ last_final' = IF handled /\ last
                         THEN [status |-> st, text |-> msg.text,
                               metadata_status |-> msg.metadata_status,
                               tool_result_failed |-> msg.tool_result_failed]
                         ELSE no_final
        /\ manager_steps' = manager.steps
        /\ notified' = [event |-> IF last THEN "worker final" ELSE "worker",
                        router |-> handled /\ last /\ all_in_3_4(after),
                        manager |-> manager.all_done]
        /\ UNCHANGED <<planning_completed, planner_final>>
        /\ UNCHANGED nonRouterVars

\* config.PROJECT_NAME; names are sequences of characters, the fixed names and
\* the prefix "Worker_" kept as one token each
PROJECT_NAME == <<"Ari">>

\* PlanningReActAgent.__init__: name = "PlanningAgent", handed to
\* super().__init__; MainReActAgent._plan_task builds the planner with no arguments
planner_name == <<"PlanningAgent">>

\* _do_route, lines 88-103: the handler chosen by msg.name
do_route(msg_name) ==
    CASE msg_name = PROJECT_NAME -> "_handle_main_agent"
      [] msg_name = <<"Planning">> -> "_handle_planning"
      [] msg_name # <<>> /\ Head(msg_name) = "Worker_" -> "_handle_worker"
      [] OTHER -> "chat_widget.add_message"

\* _do_route on an event printed by the planning agent, its text a JSON object
\* with n steps
RoutePlannerEvent(n, last) ==
    /\ planner_final' = (planner_final \/ last)
    /\ IF do_route(planner_name) = "_handle_planning" /\ last /\ ~planning_completed
       THEN /\ steps' = [i \in 1..n |-> 0]
            /\ planning_completed' = TRUE
       ELSE UNCHANGED <<steps, planning_completed>>
    /\ manager_steps' = IF planner_name = <<"Planning">> /\ last
                        THEN [i \in 1..n |-> 0] ELSE manager_steps
    /\ notified' = [event |-> "planner", router |-> FALSE, manager |-> FALSE]
    /\ last_final' = no_final
    /\ UNCHANGED nonRouterVars

NextRouter ==
    \/ \E n \in 0..MaxSubtasks, last \in BOOLEAN : RoutePlannerEvent(n, last)
    \/ \E n \in 0..MaxSubtasks : HandlePlanning(n)
    \/ \E task_id \in RoutedTaskIds, task_desc \in BOOLEAN : HandleMainAgent(task_id, task_desc)
    \/ \E msg \in WorkerMessages, last \in BOOLEAN : HandleWorker(msg, last)


(***************************************************************************)
(* Part 7  AriAgent.analyze_task_type on message texts                     *)
(*         (src/core/ari_agent.py)                                         *)
(***************************************************************************)

\* len(content) <= 20
short_message_limit == 20

\* characters: " " is whitespace, "x" an ordinary character, "p" a one-character
\* instruction word, "h" "w" the two characters of a two-character one
instruction_words == {<<"p">>, <<"h", "w">>}

\* n ordinary characters
RECURSIVE xs(_)
xs(n) == IF n = 0 THEN <<>> ELSE <<"x">> \o xs(n - 1)

\* message texts: optional whitespace around a run of ordinary characters that
\* holds, somewhere, nothing, an instruction word, half of one, or a blank
MessageContents ==
    LET shaped == {l \o xs(i) \o mid \o xs(j) \o r :
                      l \in {<<>>, <<" ">>}, r \in {<<>>, <<" ">>},
                      mid \in {<<>>, <<"p">>, <<"h", "w">>, <<"h">>, <<" ">>},
                      i \in 0..MaxContentLen, j \in 0..MaxContentLen}
    IN  {text \in shaped : Len(text) <= MaxContentLen}

\* str.lstrip() and str.rstrip() on whitespace
RECURSIVE lstrip(_)
lstrip(text) ==
    IF text # <<>> /\ Head(text) = " " THEN lstrip(Tail(text)) ELSE text

RECURSIVE rstrip(_)
rstrip(text) ==
    IF text # <<>> /\ text[Len(text)] = " "
    THEN rstrip(SubSeq(text, 1, Len(text) - 1)) ELSE text

\* str.strip()
strip(text) == rstrip(lstrip(text))

\* word in content
word_in(word, content) ==
    \E k \in 1..(Len(content) - Len(word) + 1) :
        \A d \in 1..Len(word) : content[k + d - 1] = word[d]

\* what analyze_task_type reads of the text, with the length taken before strip()
content_features_unstripped(text) ==
    [length |-> IF Len(text) = 0 THEN "empty"
                ELSE IF Len(text) <= short_message_limit THEN "short" ELSE "long",
     instruction_word |-> \E word \in instruction_words : word_in(word, text)]

\* what analyze_task_type reads of message.content (lines 158-174):
\* content = message.content.strip(), len(content), any(word in content ...)
content_features(text) ==
    LET content == strip(text)
    IN  [length |-> IF Len(content) = 0 THEN "empty"
                    ELSE IF Len(content) <= short_message_limit THEN "short" ELSE "long",
         instruction_word |-> \E word \in instruction_words : word_in(word, content)]

InitClassify ==
    /\ message_content = <<>>
    /\ task_type = "none"

\* task_type = await self.analyze_task_type(message)
AnalyzeTaskType ==
    /\ task_type = "none"
    /\ task_type' = analyze_task_type(content_features(message_content))
    /\ UNCHANGED message_content
    /\ UNCHANGED nonClassifyVars

NextClassify == AnalyzeTaskType


(***************************************************************************)
(* Part 8  the worker's name: create_worker builds it, the stream          *)
(*         consumers read the task id back from it                         *)
(*         (src/tools/create_worker.py, src/ui/message_router.py,          *)
(*          src/core/agent_manager.py)                                     *)
(***************************************************************************)

\* names are sequences of characters; "Worker_" is kept as one token
NameChars == {"a", "-", "_", "2"}

RECURSIVE NamesUpTo(_)
NamesUpTo(n) ==
    IF n = 0 THEN {<<>>}
    ELSE LET shorter == NamesUpTo(n - 1)
         IN  shorter \cup {Append(w, c) : w \in {x \in shorter : Len(x) = n - 1},
                                           c \in NameChars}

WorkerAgentNames == NamesUpTo(MaxNameLen)

DecimalDigits == <<"0", "1", "2", "3", "4", "5", "6", "7", "8", "9">>

\* f"{task_id}" of a positive int: its decimal digits
RECURSIVE format_int(_)
format_int(n) ==
    IF n < 10 THEN <<DecimalDigits[n + 1]>>
    ELSE Append(format_int(n \div 10), DecimalDigits[(n % 10) + 1])

\* int(text): the number written in decimal digits; -1 stands for ValueError
ValueError == -1

RECURSIVE int(_)
int(text) ==
    IF text = <<>> \/ \E k \in DOMAIN text : text[k] \notin Range(DecimalDigits)
    THEN ValueError
    ELSE LET d == CHOOSE v \in 0..9 : DecimalDigits[v + 1] = text[Len(text)]
         IN  IF Len(text) = 1 THEN d
             ELSE 10 * int(SubSeq(text, 1, Len(text) - 1)) + d

\* name.split("-")
RECURSIVE split(_)
split(text) ==
    IF \A k \in DOMAIN text : text[k] # "-" THEN <<text>>
    ELSE LET k == CHOOSE i \in DOMAIN text :
                      text[i] = "-" /\ \A m \in 1..(i - 1) : text[m] # "-"
         IN  <<SubSeq(text, 1, k - 1)>> \o split(SubSeq(text, k + 1, Len(text)))

\* parts[1], the text after the first "-"
second_part(text) == LET parts == split(text) IN parts[2]

\* parts[-1]
last_part(text) == LET parts == split(text) IN parts[Len(parts)]

\* create_worker, line 66: name=f"Worker_{agent_name}-{task_id}"
worker_name(agent_name, task_id) ==
    <<"Worker_">> \o agent_name \o <<"-">> \o format_int(task_id)

\* MessageRouter._handle_worker, lines 223-234: None is 0
router_task_id(msg_name) ==
    IF Len(split(msg_name)) >= 2 THEN int(last_part(msg_name)) ELSE 0

\* AriAgentManager._handle_message, lines 233-234
manager_task_id(msg_name) == int(last_part(msg_name))

InitName ==
    /\ worker_args = [agent_name |-> <<>>, task_id |-> 1]
    /\ worker_msg_name = <<>>
    /\ parsed_task_id = <<>>

\* create_worker builds the worker
NameWorker ==
    /\ worker_msg_name = <<>>
    /\ worker_msg_name' = worker_name(worker_args.agent_name, worker_args.task_id)
    /\ UNCHANGED <<worker_args, parsed_task_id>>
    /\ UNCHANGED nonNameVars

\* a message of the worker reaches the two consumers
ReadTaskId ==
    /\ worker_msg_name # <<>>
    /\ parsed_task_id = <<>>
    /\ parsed_task_id' = <<[router |-> router_task_id(worker_msg_name),
                           manager |-> manager_task_id(worker_msg_name)]>>
    /\ UNCHANGED <<worker_args, worker_msg_name>>
    /\ UNCHANGED nonNameVars

NextName ==
    \/ NameWorker
    \/ ReadTaskId


(***************************************************************************)
(* Part 9  MessageRouter.route_message and _process_updates                *)
(*         (src/ui/message_router.py 37-67)                                *)
(***************************************************************************)

RoutedEvents == 1..MaxRouted
BatchTaskIds == 1..MaxRouted

InitBatch ==
    /\ update_queue = <<>>
    /\ processing = FALSE
    /\ batch_tasks = <<>>
    /\ in_hand = [t \in BatchTaskIds |-> 0]
    /\ routed = 0
    /\ began = <<>>
    /\ finished = {}

\* route_message that starts a processor on the first call only
RouteMessageFirstOnly ==
    /\ routed < MaxRouted
    /\ routed' = routed + 1
    /\ update_queue' = Append(update_queue, routed + 1)
    /\ batch_tasks' = IF batch_tasks = <<>> THEN Append(batch_tasks, "created") ELSE batch_tasks
    /\ UNCHANGED <<processing, in_hand, began, finished>>
    /\ UNCHANGED nonBatchVars

\* route_message (lines 37-50): the put on the unbounded queue does not
\* suspend, so the call runs to its end in one step; create_task schedules
\* the processor, which starts in a later step
RouteMessage ==
    /\ routed < MaxRouted
    /\ routed' = routed + 1
    /\ update_queue' = Append(update_queue, routed + 1)
    /\ batch_tasks' = IF ~processing THEN Append(batch_tasks, "created") ELSE batch_tasks
    /\ UNCHANGED <<processing, in_hand, began, finished>>
    /\ UNCHANGED nonBatchVars

\* the loop of _process_updates from the test of its while condition (line 57)
\* to the next suspension: with an event waiting, get() returns it at once and
\* _do_route begins, suspending in a widget call; with the queue empty the
\* finally block runs and the task ends
process_updates_loop(t) ==
    IF update_queue # <<>>
    THEN /\ in_hand' = [in_hand EXCEPT ![t] = Head(update_queue)]
         /\ update_queue' = Tail(update_queue)
         /\ began' = Append(began, Head(update_queue))
         /\ batch_tasks' = [batch_tasks EXCEPT ![t] = "_do_route"]
         /\ processing' = TRUE
    ELSE /\ batch_tasks' = [batch_tasks EXCEPT ![t] = "done"]
         /\ processing' = FALSE
         /\ UNCHANGED <<in_hand, update_queue, began>>

\* a created task gets its first step: self._processing = True (line 54), then
\* the loop
ProcessUpdatesStart(t) ==
    /\ t \in DOMAIN batch_tasks
    /\ batch_tasks[t] = "created"
    /\ process_updates_loop(t)
    /\ UNCHANGED <<routed, finished>>
    /\ UNCHANGED nonBatchVars

\* _do_route returns (line 61) and the task suspends in asyncio.sleep(0)
DoRouteReturns(t) ==
    /\ t \in DOMAIN batch_tasks
    /\ batch_tasks[t] = "_do_route"
    /\ finished' = finished \cup {in_hand[t]}
    /\ batch_tasks' = [batch_tasks EXCEPT ![t] = "sleep"]
    /\ UNCHANGED <<update_queue, processing, in_hand, routed, began>>
    /\ UNCHANGED nonBatchVars

\* _do_route raises (a widget call fails, or a comparison such as that of line
\* 178 meets a value of another type): the finally block resets the flag
\* (lines 66-67) and the task ends with the exception
DoRouteRaises(t) ==
    /\ t \in DOMAIN batch_tasks
    /\ batch_tasks[t] = "_do_route"
    /\ batch_tasks' = [batch_tasks EXCEPT ![t] = "raised"]
    /\ processing' = FALSE
    /\ UNCHANGED <<update_queue, in_hand, routed, began, finished>>
    /\ UNCHANGED nonBatchVars

\* asyncio.sleep(0) is over (line 64): the while condition is tested again.
\* The flag is left as it is while the loop goes on.
ProcessUpdatesResume(t) ==
    /\ t \in DOMAIN batch_tasks
    /\ batch_tasks[t] = "sleep"
    /\ IF update_queue # <<>>
       THEN /\ in_hand' = [in_hand EXCEPT ![t] = Head(update_queue)]
            /\ update_queue' = Tail(update_queue)
            /\ began' = Append(began, Head(update_queue))
            /\ batch_tasks' = [batch_tasks EXCEPT ![t] = "_do_route"]
            /\ UNCHANGED processing
       ELSE /\ batch_tasks' = [batch_tasks EXCEPT ![t] = "done"]
            /\ processing' = FALSE
            /\ UNCHANGED <<in_hand, update_queue, began>>
    /\ UNCHANGED <<routed, finished>>
    /\ UNCHANGED nonBatchVars

BatchTaskStep(t) ==
    \/ ProcessUpdatesStart(t)
    \/ DoRouteReturns(t)
    \/ ProcessUpdatesResume(t)

NextBatch ==
    \/ RouteMessage
    \/ \E t \in BatchTaskIds : ProcessUpdatesStart(t)
    \/ \E t \in BatchTaskIds : DoRouteReturns(t)
    \/ \E t \in BatchTaskIds : DoRouteRaises(t)
    \/ \E t \in BatchTaskIds : ProcessUpdatesResume(t)

(* ------------------ Part 10: MultiAgentApp (src/main.py) ---------------- *)

\* the string messages the application and the router of a run hand to
\* SystemMessageWidget.add_message, each with its level
SystemNotices ==
    [busy |-> [level |-> "warning", text |-> "task running, wait for it"],
     completed |-> [level |-> "success", text |-> "task completed"],
     error |-> [level |-> "error", text |-> "task raised"],
     all_done |-> [level |-> "success", text |-> "all tasks done"],
     no_clear |-> [level |-> "warning", text |-> "task running, cannot clear"],
     cleared |-> [level |-> "success", text |-> "all cleared"]]

\* len(self._messages) > 50 (line 68)
message_limit == 50

\* hashlib.md5(message_text.encode('utf-8')).hexdigest() (line 47): the id of
\* a text, the same for the same text whatever the level
md5(text) == <<"md5", text>>

\* SystemMessageWidget.add_message on a string (lines 15-73): what it leaves
\* of _messages and _seen_message_ids
system_add_message(messages, seen, notice) ==
    IF md5(notice.text) \in seen
    THEN [messages |-> messages, seen |-> seen]
    ELSE LET appended == Append(messages, notice)
         IN  [messages |-> IF Len(appended) > message_limit THEN Tail(appended)
                           ELSE appended,
              seen |-> seen \cup {md5(notice.text)}]

\* a call of add_message from a handler of the application
SystemAddMessage(notice) ==
    LET r == system_add_message(system_messages, seen_message_ids, notice)
    IN  /\ system_messages' = r.messages
        /\ seen_message_ids' = r.seen

\* names of agents the registry holds during a run
AppAgentNames == {PROJECT_NAME, planner_name, <<"Worker_">>}

\* __init__ (lines 197-199) and on_mount (lines 211-218)
InitApp ==
    /\ task_running = FALSE
    /\ run_pc = "idle"
    /\ registry_agents = {}
    /\ root_instance = FALSE
    /\ clear_pending = 0
    /\ sessions = 0
    /\ submitted = 0
    /\ clear_calls = 0
    /\ root_id = 0
    /\ root_initialized = FALSE
    /\ registry_roots = <<>>
    /\ constructed = 0
    /\ system_messages = <<>>
    /\ seen_message_ids = {}
    /\ warnings_pending = 0
    /\ clearing = 0

\* on_user_input_submitted up to its first suspension (lines 240-282): a
\* submission during a run returns after the warning; an accepted one sets
\* the flag, keeps only the root agent in the registry and awaits the chat
\* widget
SubmitInput ==
    /\ submitted < MaxSubmissions
    /\ submitted' = submitted + 1
    /\ IF task_running
       THEN /\ UNCHANGED <<task_running, run_pc, registry_agents>>
            /\ SystemAddMessage(SystemNotices.busy)
       ELSE /\ task_running' = TRUE
            /\ run_pc' = "add_message"
            /\ registry_agents' = registry_agents \cap {PROJECT_NAME}
            /\ UNCHANGED <<system_messages, seen_message_ids>>
    /\ UNCHANGED <<warnings_pending, clearing>>
    /\ UNCHANGED <<root_instance, clear_pending, sessions, clear_calls>>
    /\ UNCHANGED rootVars
    /\ UNCHANGED nonAppVars

\* MainReActAgent.__new__ (src/core/main_agent.py lines 152-160): the object
\* the call returns, a new one if _instance is None
new_root(id, made) == IF id = 0 THEN made + 1 ELSE id

\* MainReActAgent.__init__ run to its end (lines 162-355): an initialised
\* object is left as it is; otherwise the base class registers it and
\* _initialized is set
init_root(id, initialized, roots) == IF initialized THEN roots ELSE Append(roots, id)

\* lines 285-291: MainReActAgent() returns the singleton, constructing and
\* registering it if there is none, and the iteration of
\* stream_all_messages begins
RunStartsStreaming ==
    /\ run_pc = "add_message"
    /\ run_pc' = "streaming"
    /\ root_instance' = TRUE
    /\ root_id' = new_root(root_id, constructed)
    /\ constructed' = IF root_id = 0 THEN constructed + 1 ELSE constructed
    /\ root_initialized' = TRUE
    /\ registry_roots' = init_root(new_root(root_id, constructed), root_initialized,
                                   registry_roots)
    /\ registry_agents' = IF root_initialized THEN registry_agents
                          ELSE registry_agents \cup {PROJECT_NAME}
    /\ sessions' = sessions + 1
    /\ UNCHANGED <<task_running, clear_pending, submitted, clear_calls>>
    /\ UNCHANGED sysVars
    /\ UNCHANGED nonAppVars

\* line 285 with __init__ raising before the call of the base class's
\* __init__ returns (the model, a skill directory or the long-term memory
\* cannot be set up): _instance is set by __new__, nothing is registered, and
\* the exception reaches the handler of line 299
RunConstructionFails ==
    /\ run_pc = "add_message"
    /\ ~root_initialized
    /\ run_pc' = "except"
    /\ root_instance' = TRUE
    /\ root_id' = new_root(root_id, constructed)
    /\ constructed' = IF root_id = 0 THEN constructed + 1 ELSE constructed
    /\ UNCHANGED <<root_initialized, registry_roots>>
    /\ UNCHANGED <<task_running, registry_agents, clear_pending, sessions, submitted,
                   clear_calls>>
    /\ SystemAddMessage(SystemNotices.error)
    /\ UNCHANGED <<warnings_pending, clearing>>
    /\ UNCHANGED nonAppVars

\* lines 291-294: while the run streams, the agents it creates register
RunAgentRegisters(name) ==
    /\ run_pc = "streaming"
    /\ registry_agents' = registry_agents \cup {name}
    /\ UNCHANGED <<task_running, run_pc, root_instance, clear_pending, sessions, submitted,
                   clear_calls>>
    /\ UNCHANGED rootVars
    /\ UNCHANGED sysVars
    /\ UNCHANGED nonAppVars

\* lines 291-297: the stream ends and the success message is awaited
RunStreamEnds ==
    /\ run_pc = "streaming"
    /\ run_pc' = "completed"
    /\ sessions' = sessions - 1
    /\ UNCHANGED <<task_running, registry_agents, root_instance, clear_pending, submitted,
                   clear_calls>>
    /\ UNCHANGED rootVars
    /\ SystemAddMessage(SystemNotices.completed)
    /\ UNCHANGED <<warnings_pending, clearing>>
    /\ UNCHANGED nonAppVars

\* lines 299-304: an exception inside the try block reaches the handler,
\* which awaits the error message
RunRaises ==
    /\ run_pc \in {"add_message", "streaming", "completed"}
    /\ run_pc' = "except"
    /\ sessions' = 0
    /\ UNCHANGED <<task_running, registry_agents, root_instance, clear_pending, submitted,
                   clear_calls>>
    /\ UNCHANGED rootVars
    /\ SystemAddMessage(SystemNotices.error)
    /\ UNCHANGED <<warnings_pending, clearing>>
    /\ UNCHANGED nonAppVars

\* the finally block (lines 306-319)
run_finally ==
    /\ task_running' = FALSE
    /\ run_pc' = "idle"
    /\ sessions' = 0
    /\ UNCHANGED <<registry_agents, root_instance, clear_pending, submitted, clear_calls>>
    /\ UNCHANGED rootVars
    /\ UNCHANGED sysVars
    /\ UNCHANGED nonAppVars

\* the success message was shown: the try block ends
RunSucceeds == run_pc = "completed" /\ run_finally

\* the exception handler ends, by returning or by raising
RunFails == run_pc = "except" /\ run_finally

\* the handler's task is cancelled at any of its suspensions: CancelledError
\* is not an Exception, so only the finally block runs
RunCancelled == run_pc # "idle" /\ run_finally

\* action_clear (lines 321-373): during a run only the warning is scheduled;
\* otherwise create_task schedules do_clear, which runs later
ActionClear ==
    /\ clear_calls < MaxClears
    /\ clear_calls' = clear_calls + 1
    /\ clear_pending' = IF task_running THEN clear_pending ELSE clear_pending + 1
    /\ warnings_pending' = IF task_running THEN warnings_pending + 1 ELSE warnings_pending
    /\ UNCHANGED <<system_messages, seen_message_ids, clearing>>
    /\ UNCHANGED <<task_running, run_pc, registry_agents, root_instance, sessions, submitted>>
    /\ UNCHANGED rootVars
    /\ UNCHANGED nonAppVars

\* a do_clear that clears the registry and leaves the singleton in place
DoClearRegistryOnly ==
    /\ clear_pending > 0
    /\ clear_pending' = clear_pending - 1
    /\ registry_agents' = {}
    /\ registry_roots' = <<>>
    /\ UNCHANGED <<root_instance, root_id, root_initialized, constructed>>
    /\ UNCHANGED <<task_running, run_pc, sessions, submitted, clear_calls>>
    /\ clearing' = clearing + 1
    /\ UNCHANGED <<system_messages, seen_message_ids, warnings_pending>>
    /\ UNCHANGED nonAppVars

\* the first step of a do_clear task (lines 331-353): it does not read
\* _task_running
DoClear ==
    /\ clear_pending > 0
    /\ clear_pending' = clear_pending - 1
    /\ registry_agents' = {}
    /\ root_instance' = FALSE
    /\ UNCHANGED <<task_running, run_pc, sessions, submitted, clear_calls>>
    /\ root_id' = 0
    /\ root_initialized' = FALSE
    /\ registry_roots' = <<>>
    /\ UNCHANGED constructed
    /\ clearing' = clearing + 1
    /\ UNCHANGED <<system_messages, seen_message_ids, warnings_pending>>
    /\ UNCHANGED nonAppVars

\* the rest of a do_clear task (lines 355-366): the widgets are cleared,
\* SystemMessageWidget.clear_messages (lines 75-82) among them, and the
\* notice of the clear is added
DoClearWidgets ==
    /\ clearing > 0
    /\ clearing' = clearing - 1
    /\ LET r == system_add_message(<<>>, {}, SystemNotices.cleared)
       IN  /\ system_messages' = r.messages
           /\ seen_message_ids' = r.seen
    /\ UNCHANGED warnings_pending
    /\ UNCHANGED <<task_running, run_pc, registry_agents, root_instance, clear_pending,
                   sessions, submitted, clear_calls>>
    /\ UNCHANGED rootVars
    /\ UNCHANGED nonAppVars

\* the add_message task action_clear created during a run (lines 326-328)
ClearWarningRuns ==
    /\ warnings_pending > 0
    /\ warnings_pending' = warnings_pending - 1
    /\ SystemAddMessage(SystemNotices.no_clear)
    /\ UNCHANGED clearing
    /\ UNCHANGED <<task_running, run_pc, registry_agents, root_instance, clear_pending,
                   sessions, submitted, clear_calls>>
    /\ UNCHANGED rootVars
    /\ UNCHANGED nonAppVars

\* lines 291-294: the router of the run hands a notice of its own to the
\* widget (MessageRouter._send_system_message)
RunRouterNotice ==
    /\ run_pc = "streaming"
    /\ SystemAddMessage(SystemNotices.all_done)
    /\ UNCHANGED <<warnings_pending, clearing>>
    /\ UNCHANGED <<task_running, run_pc, registry_agents, root_instance, clear_pending,
                   sessions, submitted, clear_calls>>
    /\ UNCHANGED rootVars
    /\ UNCHANGED nonAppVars

NextApp ==
    \/ SubmitInput
    \/ RunStartsStreaming
    \/ RunConstructionFails
    \/ \E name \in AppAgentNames \ {PROJECT_NAME} : RunAgentRegisters(name)
    \/ RunStreamEnds
    \/ RunRaises
    \/ RunSucceeds
    \/ RunFails
    \/ RunCancelled
    \/ ActionClear
    \/ DoClear
    \/ DoClearWidgets
    \/ ClearWarningRuns
    \/ RunRouterNotice

(* ------------------ Part 11: MessageStreamer (src/simple.py) ------------ *)

\* __init__ (lines 333-338)
InitStreamer ==
    /\ streamer_queue = <<>>
    /\ streamer_task = "none"
    /\ streamer_callback = "none"
    /\ streamer_gen = "idle"
    /\ streamer_interrupted = FALSE
    /\ interrupt_pc = "none"
    /\ streamer_emitted = 0
    /\ streamer_yielded = 0


\* __aiter__ up to its first suspension (lines 340-374): the queue is made,
\* the root task created and the callback attached (create_task never returns
\* a finished task). The subscription of the agents is that of Part 1.
StreamerStart ==
    /\ streamer_gen = "idle"
    /\ streamer_queue' = <<(<<>>)>>
    /\ streamer_task' = "running"
    /\ streamer_callback' = "attached"
    /\ streamer_gen' = "wait"
    /\ UNCHANGED <<streamer_interrupted, interrupt_pc, streamer_emitted, streamer_yielded>>
    /\ UNCHANGED nonStreamerVars

\* an agent of the root task prints an event: it goes to the tail of the
\* queue the agent was subscribed to. A task whose cancellation was requested
\* may still print (handle_interrupt).
StreamerEmit ==
    /\ streamer_task \in {"running", "cancelling"}
    /\ streamer_queue # <<>>
    /\ streamer_emitted < MaxEvents
    /\ streamer_emitted' = streamer_emitted + 1
    /\ streamer_queue' = <<queue_put(streamer_queue[1], "event")>>
    /\ UNCHANGED <<streamer_task, streamer_callback, streamer_gen, streamer_interrupted,
                   interrupt_pc, streamer_yielded>>
    /\ UNCHANGED nonStreamerVars

\* the root task ends: returning, raising, or cancelled. A task whose
\* cancellation was requested ends cancelled, or returns when the agent
\* handles the interruption. asyncio schedules the done-callback.
StreamerTaskDone(how) ==
    /\ \/ streamer_task = "running" /\ how \in {"ok", "exc"}
       \/ streamer_task = "cancelling" /\ how \in {"ok", "cancelled"}
    /\ streamer_task' = how
    /\ streamer_callback' = IF streamer_callback = "attached" THEN "scheduled"
                            ELSE streamer_callback
    /\ UNCHANGED <<streamer_queue, streamer_gen, streamer_interrupted, interrupt_pc,
                   streamer_emitted, streamer_yielded>>
    /\ UNCHANGED nonStreamerVars

\* a done-callback that puts no end signal once the stream was interrupted
StreamerCallbackUnlessInterrupted ==
    /\ streamer_callback = "scheduled"
    /\ streamer_callback' = "ran"
    /\ streamer_queue' = IF streamer_queue # <<>> /\ ~streamer_interrupted
                         THEN <<queue_put(streamer_queue[1], end_signal)>>
                         ELSE streamer_queue
    /\ UNCHANGED <<streamer_task, streamer_gen, streamer_interrupted, interrupt_pc,
                   streamer_emitted, streamer_yielded>>
    /\ UNCHANGED nonStreamerVars

\* safe_done_callback (lines 352-358)
StreamerCallback ==
    /\ streamer_callback = "scheduled"
    /\ streamer_callback' = "ran"
    /\ streamer_queue' = IF streamer_queue # <<>>
                         THEN <<queue_put(streamer_queue[1], end_signal)>>
                         ELSE streamer_queue
    /\ UNCHANGED <<streamer_task, streamer_gen, streamer_interrupted, interrupt_pc,
                   streamer_emitted, streamer_yielded>>
    /\ UNCHANGED nonStreamerVars

\* wait_for(queue.get()) returns an event and the generator yields it (lines
\* 368-391)
StreamerYield ==
    /\ streamer_gen = "wait"
    /\ streamer_queue # <<>>
    /\ streamer_queue[1] # <<>>
    /\ queue_get(streamer_queue[1]).item # end_signal
    /\ streamer_queue' = <<queue_get(streamer_queue[1]).rest>>
    /\ streamer_yielded' = streamer_yielded + 1
    /\ UNCHANGED <<streamer_task, streamer_callback, streamer_gen, streamer_interrupted,
                   interrupt_pc, streamer_emitted>>
    /\ UNCHANGED nonStreamerVars

\* the finally block of __aiter__ (lines 398-420): the callback is removed
\* from a task that is not done, and the queue is set to None
streamer_finally ==
    /\ streamer_callback' = IF streamer_task \in {"running", "cancelling"}
                                 /\ streamer_callback = "attached"
                            THEN "removed" ELSE streamer_callback
    /\ streamer_queue' = <<>>

\* wait_for(queue.get()) returns the end signal: break, then the finally block
StreamerEnd ==
    /\ streamer_gen = "wait"
    /\ streamer_queue # <<>>
    /\ streamer_queue[1] # <<>>
    /\ queue_get(streamer_queue[1]).item = end_signal
    /\ streamer_gen' = "ended"
    /\ streamer_finally
    /\ UNCHANGED <<streamer_task, streamer_interrupted, interrupt_pc, streamer_emitted,
                   streamer_yielded>>
    /\ UNCHANGED nonStreamerVars

\* the consumer leaves the iteration (GeneratorExit at the yield), or its task
\* is cancelled at the await, which sets _interrupted (lines 394-397); the
\* finally block runs
StreamerClose(cancelled) ==
    /\ streamer_gen = "wait"
    /\ streamer_gen' = "closed"
    /\ streamer_interrupted' = (streamer_interrupted \/ cancelled)
    /\ streamer_finally
    /\ UNCHANGED <<streamer_task, interrupt_pc, streamer_emitted, streamer_yielded>>
    /\ UNCHANGED nonStreamerVars

\* interrupt() up to its suspension (lines 422-442): the flag is set,
\* agent.interrupt() is called, and a task that is not done is cancelled and
\* awaited
Interrupt ==
    /\ interrupt_pc = "none"
    /\ streamer_gen = "wait"
    /\ streamer_interrupted' = TRUE
    /\ IF streamer_task \in {"running", "cancelling"}
       THEN /\ streamer_task' = "cancelling"
            /\ interrupt_pc' = "wait_for"
       ELSE /\ interrupt_pc' = "returned"
            /\ UNCHANGED streamer_task
    /\ UNCHANGED <<streamer_queue, streamer_callback, streamer_gen, streamer_emitted,
                   streamer_yielded>>
    /\ UNCHANGED nonStreamerVars

\* wait_for(self._task, timeout=2.0) is over (lines 443-447): the task is done;
\* after a timeout wait_for returns only when the task it cancelled has ended
InterruptReturns ==
    /\ interrupt_pc = "wait_for"
    /\ streamer_task \in {"ok", "exc", "cancelled"}
    /\ interrupt_pc' = "returned"
    /\ UNCHANGED <<streamer_queue, streamer_task, streamer_callback, streamer_gen,
                   streamer_interrupted, streamer_emitted, streamer_yielded>>
    /\ UNCHANGED nonStreamerVars

NextStreamer ==
    \/ StreamerStart
    \/ StreamerEmit
    \/ \E how \in {"ok", "exc", "cancelled"} : StreamerTaskDone(how)
    \/ StreamerCallback
    \/ StreamerYield
    \/ StreamerEnd
    \/ \E cancelled \in BOOLEAN : StreamerClose(cancelled)
    \/ Interrupt
    \/ InterruptReturns

(* ------------------ Part 12: ChatWidget (src/ui/chat_widget.py) --------- *)

MsgIds == 1..MaxMsgIds

\* __init__ (lines 430-435)
InitChat ==
    /\ stream_blocks = {}
    /\ mounted = [id \in MsgIds |-> 0]
    /\ is_streaming = [id \in MsgIds |-> FALSE]
    /\ nonfinal_events = [id \in MsgIds |-> 0]
    /\ final_event = [id \in MsgIds |-> "none"]


\* add_message that mounts a streaming block without keeping it in
\* stream_blocks
add_message_unregistered(blocks, mnt, streaming, id, last, shown) ==
    IF ~shown THEN [stream_blocks |-> blocks, mounted |-> mnt, is_streaming |-> streaming]
    ELSE IF id \in blocks
    THEN [stream_blocks |-> IF last THEN blocks \ {id} ELSE blocks,
          mounted |-> mnt,
          is_streaming |-> [streaming EXCEPT ![id] = ~last]]
    ELSE [stream_blocks |-> blocks,
          mounted |-> [mnt EXCEPT ![id] = @ + 1],
          is_streaming |-> [streaming EXCEPT ![id] = ~last]]

\* add_message (lines 446-492) for a message with id `id`; shown is whether
\* _parse_message gives a sender and a text. Without them the call returns
\* (lines 456-457). Otherwise a block found in stream_blocks is updated, and
\* removed from stream_blocks on the final event; a message with no block
\* there gets a new block mounted, kept in stream_blocks unless final.
add_message(blocks, mnt, streaming, id, last, shown) ==
    IF ~shown THEN [stream_blocks |-> blocks, mounted |-> mnt, is_streaming |-> streaming]
    ELSE IF id \in blocks
    THEN [stream_blocks |-> IF last THEN blocks \ {id} ELSE blocks,
          mounted |-> mnt,
          is_streaming |-> [streaming EXCEPT ![id] = ~last]]
    ELSE [stream_blocks |-> IF last THEN blocks ELSE blocks \cup {id},
          mounted |-> [mnt EXCEPT ![id] = @ + 1],
          is_streaming |-> [streaming EXCEPT ![id] = ~last]]

\* one awaited call of add_message; a message id gets non-final events, then
\* one final event
AddMessage(id, last, shown) ==
    /\ final_event[id] = "none"
    /\ last \/ nonfinal_events[id] < MaxEvents
    /\ LET r == add_message(stream_blocks, mounted, is_streaming, id, last, shown)
       IN  /\ stream_blocks' = r.stream_blocks
           /\ mounted' = r.mounted
           /\ is_streaming' = r.is_streaming
    /\ nonfinal_events' = IF last THEN nonfinal_events
                          ELSE [nonfinal_events EXCEPT ![id] = @ + 1]
    /\ final_event' = IF last
                      THEN [final_event EXCEPT ![id] = IF shown THEN "shown" ELSE "hidden"]
                      ELSE final_event
    /\ UNCHANGED nonChatVars

NextChat == \E id \in MsgIds, last \in BOOLEAN, shown \in BOOLEAN : AddMessage(id, last, shown)

(* ------------------ Part 13: ThinkingWidget (src/ui/thinking_widget.py) - *)

ThinkingToolNames == {"_plan_task", "create_worker"}

\* __init__ (lines 37-42)
InitThinking ==
    /\ thinking_records = [a \in AgentIds |-> <<>>]
    /\ clear_timers = [a \in AgentIds |-> 0]
    /\ thinking_widgets = <<>>
    /\ timers = <<>>

\* Task.cancel() on a _delayed_clear task: a task that is suspended ends with
\* CancelledError at its next step, whether it sleeps or awaits the removal
\* of the widget; a finished task is left as it is
cancel_timer(ts, t) ==
    IF t # 0 /\ ts[t].pc \in {"sleep", "remove"}
    THEN [ts EXCEPT ![t].pc = "cancelled"]
    ELSE ts

\* add_thinking (lines 98-148), called for agent a and tool `tool`: the timer
\* in _clear_timers is cancelled and removed; the record of the same tool is
\* updated and its widget re-rendered; for another tool, or with no record, a
\* new widget is mounted and the record replaced
AddThinking(a, tool) ==
    /\ timers' = cancel_timer(timers, clear_timers[a])
    /\ clear_timers' = [clear_timers EXCEPT ![a] = 0]
    /\ IF thinking_records[a] # <<>> /\ thinking_records[a][1].tool_name = tool
       THEN /\ thinking_records' = [thinking_records EXCEPT ![a] = <<[@[1] EXCEPT !.completed = FALSE]>>]
            /\ UNCHANGED thinking_widgets
       ELSE /\ Len(thinking_widgets) < MaxWidgets
            /\ thinking_widgets' = Append(thinking_widgets, [agent |-> a, is_mounted |-> TRUE])
            /\ thinking_records' = [thinking_records EXCEPT ![a] =
                    <<[tool_name |-> tool, widget |-> Len(thinking_widgets) + 1,
                       completed |-> FALSE]>>]
    /\ UNCHANGED nonThinkingVars

\* mark_thinking_complete (lines 150-198): nothing for an agent without a
\* record; otherwise the timer in _clear_timers is cancelled, the record is
\* marked completed and a new _delayed_clear task is created and stored
MarkThinkingComplete(a) ==
    /\ Len(timers) < MaxTimers
    /\ IF thinking_records[a] = <<>>
       THEN UNCHANGED thinkingVars
       ELSE /\ timers' = Append(cancel_timer(timers, clear_timers[a]), [agent |-> a, pc |-> "sleep"])
            /\ clear_timers' = [clear_timers EXCEPT ![a] = Len(timers) + 1]
            /\ thinking_records' = [thinking_records EXCEPT ![a] = <<[@[1] EXCEPT !.completed = TRUE]>>]
            /\ UNCHANGED thinking_widgets
    /\ UNCHANGED nonThinkingVars

\* the end of a _delayed_clear task (lines 191-194): it leaves _clear_timers
\* if it is the task stored there
timer_finally(t) ==
    clear_timers' = [clear_timers EXCEPT ![timers[t].agent] = IF @ = t THEN 0 ELSE @]

\* asyncio.sleep(3.0) is over (lines 183-185) and _clear_agent_thinking begins
\* (lines 200-208): widget.remove() starts the removal of the record's widget
\* and the task awaits it; a widget that is not mounted is skipped and the
\* record deleted at once
TimerWakes(t) ==
    /\ t \in DOMAIN timers
    /\ timers[t].pc = "sleep"
    /\ LET a == timers[t].agent
       IN  IF thinking_records[a] = <<>>
           THEN /\ timers' = [timers EXCEPT ![t].pc = "done"]
                /\ timer_finally(t)
                /\ UNCHANGED <<thinking_records, thinking_widgets>>
           ELSE IF thinking_widgets[thinking_records[a][1].widget].is_mounted
           THEN /\ timers' = [timers EXCEPT ![t].pc = "remove"]
                /\ thinking_widgets' = [thinking_widgets EXCEPT
                                           ![thinking_records[a][1].widget].is_mounted = FALSE]
                /\ UNCHANGED <<thinking_records, clear_timers>>
           ELSE /\ timers' = [timers EXCEPT ![t].pc = "done"]
                /\ thinking_records' = [thinking_records EXCEPT ![a] = <<>>]
                /\ timer_finally(t)
                /\ UNCHANGED thinking_widgets
    /\ UNCHANGED nonThinkingVars

\* the removal awaited at line 206 is over: the record is deleted (line 207)
\* and the task ends
TimerRemoved(t) ==
    /\ t \in DOMAIN timers
    /\ timers[t].pc = "remove"
    /\ timers' = [timers EXCEPT ![t].pc = "done"]
    /\ thinking_records' = [thinking_records EXCEPT ![timers[t].agent] = <<>>]
    /\ timer_finally(t)
    /\ UNCHANGED thinking_widgets
    /\ UNCHANGED nonThinkingVars

NextThinking ==
    \/ \E a \in AgentIds, tool \in ThinkingToolNames : AddThinking(a, tool)
    \/ \E a \in AgentIds : MarkThinkingComplete(a)
    \/ \E t \in 1..MaxTimers : TimerWakes(t)
    \/ \E t \in 1..MaxTimers : TimerRemoved(t)

(***************************************************************************)
(* Part 14  MessageRouter's handlers on the plan as json.loads gives it    *)
(*          (src/ui/message_router.py)                                     *)
(***************************************************************************)

\* an element of self.steps that is not a JSON object
NotADict == [is_dict |-> FALSE, status |-> -1, result |-> "absent"]

\* the elements of a planner's steps list: a value that is not an object, an
\* object without a "status" key (status -1), an object whose "status" the
\* planner set itself to a value the router never writes (9)
PlannedSteps ==
    {NotADict} \cup {[is_dict |-> TRUE, status |-> s, result |-> "absent"] : s \in {-1, 9}}

StepLists == UNION {[1..n -> PlannedSteps] : n \in 0..MaxSubtasks}

\* planning_result.get("steps", []) (line 202): a list, null, a number, an
\* empty string or object, a one-character string or one-key object
StepsValues ==
    {[kind |-> "list", items |-> l] : l \in StepLists}
        \cup {[kind |-> k, items |-> <<>>] : k \in {"null", "number", "empty", "strs"}}

\* _extract_text(msg.content) of a planner's final event: empty, without "{",
\* with "{" and no "}", from "{" to the last "}" not JSON, or a JSON object
\* there (one without the key "steps" reads as steps [])
PlannerTexts ==
    {[text |-> t, steps |-> [kind |-> "list", items |-> <<>>]] :
        t \in {"empty", "no_open", "no_close", "malformed"}}
        \cup {[text |-> "object", steps |-> v] : v \in StepsValues}

\* the plan the claim calls well-formed: a JSON object whose steps is a list
\* of objects
WellFormedPlan(txt) ==
    /\ txt.text = "object"
    /\ txt.steps.kind = "list"
    /\ \A i \in DOMAIN txt.steps.items : txt.steps.items[i].is_dict

\* text_content.find("{") (line 196)
json_start(txt) == IF txt.text = "no_open" THEN -1 ELSE 0

\* text_content.rfind("}") + 1 (line 197): 0 when there is no "}"
json_end(txt) == IF txt.text \in {"no_open", "no_close"} THEN 0 ELSE 1

\* json.loads(text_content[json_start:json_end]) raises JSONDecodeError
\* (line 201): on the empty slice and on a slice that is not JSON
loads_raises(txt) == json_end(txt) = 0 \/ txt.text = "malformed"

\* bool(self.steps)
truthy(v) ==
    CASE v.kind = "list" -> v.items # <<>>
      [] v.kind \in {"null", "empty"} -> FALSE
      [] OTHER -> TRUE

\* len(self.steps), where it returns
len(v) == IF v.kind = "list" THEN Len(v.items) ELSE IF v.kind = "strs" THEN 1 ELSE 0

\* the first element of the list that is not an object, Len + 1 if none
first_bad(items) ==
    IF \E i \in DOMAIN items : ~items[i].is_dict
    THEN CHOOSE i \in DOMAIN items :
             /\ ~items[i].is_dict
             /\ \A j \in DOMAIN items : ~items[j].is_dict => i <= j
    ELSE Len(items) + 1

\* for step in self.steps: step["status"] = 0; step["result"] = ""
\* (lines 205-207), up to the element that raises TypeError
initialised(items) ==
    [i \in DOMAIN items |->
        IF i < first_bad(items)
        THEN [is_dict |-> TRUE, status |-> 0, result |-> ""]
        ELSE items[i]]

\* _handle_planning (lines 182-217): what it leaves of self.steps and
\* self.planning_completed, and whether an exception leaves it
handle_planning(v, done, txt, last) ==
    LET same == [steps |-> v, planning_completed |-> done, raised |-> FALSE]
        got == txt.steps
    IN  IF ~last \/ done THEN same
        ELSE IF txt.text = "empty" THEN same
        ELSE IF ~(json_start(txt) # -1 /\ json_end(txt) # -1) THEN same
        ELSE IF loads_raises(txt) THEN same   \* except json.JSONDecodeError
        ELSE CASE got.kind \in {"null", "number"} ->
                      \* for ... in None / in a number: TypeError
                      [steps |-> got, planning_completed |-> done, raised |-> TRUE]
               [] got.kind = "empty" ->
                      [steps |-> got, planning_completed |-> TRUE, raised |-> FALSE]
               [] got.kind = "strs" ->
                      \* step is a str: step["status"] = 0 raises TypeError
                      [steps |-> got, planning_completed |-> done, raised |-> TRUE]
               [] OTHER ->
                      IF first_bad(got.items) > Len(got.items)
                      THEN [steps |-> [kind |-> "list", items |-> initialised(got.items)],
                            planning_completed |-> TRUE, raised |-> FALSE]
                      ELSE [steps |-> [kind |-> "list", items |-> initialised(got.items)],
                            planning_completed |-> done, raised |-> TRUE]

\* self.steps[task_id - 1] on a list: the position read, counted from 1;
\* 0 when Python raises IndexError
position(items, task_id) ==
    IF task_id >= 1 THEN (IF task_id <= Len(items) THEN task_id ELSE 0)
    ELSE IF Len(items) + task_id >= 1 THEN Len(items) + task_id ELSE 0

\* task ids a create_worker tool_use can carry in its input: 0 for none
MainTaskIds == (-1)..(MaxSubtasks + 1)

\* _handle_main_agent, lines 169-180, the first block a create_worker tool_use
handle_main_agent(v, task_id) ==
    LET same == [steps |-> v, raised |-> FALSE]
        fails == [steps |-> v, raised |-> TRUE]
    IN  IF task_id = 0 \/ ~truthy(v) THEN same
        ELSE IF v.kind = "number" THEN fails       \* len() of a number
        ELSE IF ~(task_id <= len(v)) THEN same
        ELSE IF v.kind = "strs" THEN fails         \* no item assignment / KeyError
        ELSE LET pos == position(v.items, task_id)
             IN  IF pos = 0 THEN fails             \* IndexError
                 ELSE IF ~v.items[pos].is_dict THEN fails
                 ELSE [steps |-> [v EXCEPT !.items[pos].status = 1], raised |-> FALSE]

\* task ids at the end of a worker's name: int() of the part after the last "-"
WorkerTaskIds == 0..(MaxSubtasks + 1)

\* self.steps[task_id - 1]["status"] raises: the element is no object
\* (TypeError) or has no such key (KeyError)
status_unreadable(v, task_id) ==
    \/ v.kind = "strs"
    \/ /\ v.kind = "list"
       /\ LET pos == position(v.items, task_id)
          IN  pos # 0 /\ (~v.items[pos].is_dict \/ v.items[pos].status = -1)

\* line 232 of _handle_worker raises
peek_raises(v, task_id, last) ==
    /\ ~last
    /\ truthy(v)
    /\ \/ v.kind = "number"
       \/ task_id <= len(v) /\ status_unreadable(v, task_id)

\* all(step["status"] in [3, 4] for step in self.steps) (line 295) raises: it
\* reaches an element whose "status" cannot be read
all_raises(items) ==
    \E k \in DOMAIN items :
        /\ ~items[k].is_dict \/ items[k].status = -1
        /\ \A j \in 1..(k - 1) : items[j].status \in {3, 4}

\* _handle_worker (lines 219-301) on a message with text or without, failed
\* by one of its three tests or not; TypeError and KeyError pass its
\* except (ValueError, IndexError)
handle_worker(v, task_id, has_text, last, failed) ==
    LET same == [steps |-> v, raised |-> FALSE]
        fails == [steps |-> v, raised |-> TRUE]
        st == IF ~last THEN 2 ELSE IF failed THEN 4 ELSE 3
    IN  IF peek_raises(v, task_id, last) THEN fails
        ELSE IF ~has_text \/ ~truthy(v) \/ task_id = 0 THEN same
        ELSE IF v.kind = "number" THEN fails
        ELSE IF task_id > len(v) THEN same
        ELSE IF v.kind = "strs" THEN fails
        ELSE IF ~v.items[task_id].is_dict THEN fails
        ELSE LET after == [v EXCEPT !.items[task_id].status = st,
                                    !.items[task_id].result = "text"]
             IN  [steps |-> after, raised |-> last /\ all_raises(after.items)]

no_event == [handler |-> "none", last |-> FALSE, text |-> "none", well_formed |-> FALSE,
             task_id |-> 0, raised |-> FALSE]

\* MessageRouter.__init__ (lines 22-23)
InitHandler ==
    /\ self_steps = [kind |-> "list", items |-> <<>>]
    /\ self_planning_completed = FALSE
    /\ handled_count = 0
    /\ handled_event = no_event

\* _do_route on an event named "Planning"
DoRoutePlanning(txt, last) ==
    LET r == handle_planning(self_steps, self_planning_completed, txt, last)
    IN  /\ handled_count < MaxHandled
        /\ handled_count' = handled_count + 1
        /\ self_steps' = r.steps
        /\ self_planning_completed' = r.planning_completed
        /\ handled_event' = [handler |-> "_handle_planning", last |-> last, text |-> txt.text,
                             well_formed |-> WellFormedPlan(txt), task_id |-> 0,
                             raised |-> r.raised]
        /\ UNCHANGED nonHandlerVars

\* _do_route on an event of the root agent whose first block is a
\* create_worker tool_use
DoRouteMainAgent(task_id, last) ==
    LET r == handle_main_agent(self_steps, task_id)
    IN  /\ handled_count < MaxHandled
        /\ handled_count' = handled_count + 1
        /\ self_steps' = r.steps
        /\ handled_event' = [handler |-> "_handle_main_agent", last |-> last, text |-> "none",
                             well_formed |-> FALSE, task_id |-> task_id,
                             raised |-> r.raised]
        /\ UNCHANGED self_planning_completed
        /\ UNCHANGED nonHandlerVars

\* _do_route on an event of a worker
DoRouteWorker(task_id, has_text, last, failed) ==
    LET r == handle_worker(self_steps, task_id, has_text, last, failed)
    IN  /\ handled_count < MaxHandled
        /\ handled_count' = handled_count + 1
        /\ self_steps' = r.steps
        /\ handled_event' = [handler |-> "_handle_worker", last |-> last, text |-> "none",
                             well_formed |-> FALSE, task_id |-> task_id,
                             raised |-> r.raised]
        /\ UNCHANGED self_planning_completed
        /\ UNCHANGED nonHandlerVars

NextHandler ==
    \/ \E txt \in PlannerTexts, last \in BOOLEAN : DoRoutePlanning(txt, last)
    \/ \E task_id \in MainTaskIds, last \in BOOLEAN : DoRouteMainAgent(task_id, last)
    \/ \E task_id \in WorkerTaskIds, has_text \in BOOLEAN, last \in BOOLEAN,
          failed \in BOOLEAN : DoRouteWorker(task_id, has_text, last, failed)

(***************************************************************************)
(* Part 15  TaskListWidget (src/ui/task_list_widget.py)                    *)
(***************************************************************************)

\* the steps handed to update_tasks: each with the "task_id" the planner gave
\* it (its position, or 0 for none), status 0 and no result
StepsOfLength(n) ==
    {l \in [1..n -> [task_id : 0..n, status : {0}, result : {""}]] :
        \A i \in 1..n : l[i].task_id \in {0, i}}

ListedSteps == UNION {StepsOfLength(n) : n \in 0..MaxSubtasks}

\* result_display or "-"   (lines 143, 190)
shown(text) == IF text = "" THEN "-" ELSE text

\* self._pending_updates[task_id] = (status, result)   (line 99)
pending_put(pending, task_id, new_status, new_result) ==
    LET put == [task_id |-> task_id, status |-> new_status, result |-> new_result]
    IN  IF \E i \in DOMAIN pending : pending[i].task_id = task_id
        THEN [i \in DOMAIN pending |->
                 IF pending[i].task_id = task_id THEN put ELSE pending[i]]
        ELSE Append(pending, put)

RECURSIVE update_task_status(_, _, _, _)
RECURSIVE render_tasks(_)
RECURSIVE apply_pending(_, _)

\* lines 212-213: the pending updates, one call of update_task_status each
apply_pending(w, pending) ==
    IF pending = <<>> THEN w
    ELSE apply_pending(update_task_status(w, Head(pending).task_id, Head(pending).status,
                                          Head(pending).result),
                       Tail(pending))

\* _render_tasks (lines 159-213) on the widget w; nothing in it suspends
\* before the finally block
render_tasks(w) ==
    LET during == [w EXCEPT !.rendering = TRUE]
        drawn == [during EXCEPT
                     !.table_rows = [i \in DOMAIN w.list_tasks |->
                                        [status |-> w.list_tasks[i].status,
                                         result |-> shown(w.list_tasks[i].result)]],
                     !.row_keys = {w.list_tasks[i].task_id : i \in DOMAIN w.list_tasks}]
        released == [drawn EXCEPT !.rendering = FALSE]
    IN  IF released.pending_updates = <<>> THEN released
        ELSE apply_pending([released EXCEPT !.pending_updates = <<>>],
                           released.pending_updates)

\* update_task_status (lines 88-157) on the widget w
update_task_status(w, task_id, new_status, new_result) ==
    IF w.rendering
    THEN [w EXCEPT !.pending_updates = pending_put(@, task_id, new_status, new_result)]
    ELSE IF task_id <= Len(w.list_tasks)
    THEN LET stored == [w EXCEPT !.list_tasks[task_id].status = new_status,
                                 !.list_tasks[task_id].result =
                                     IF new_result # "" THEN new_result ELSE @]
         IN  IF task_id \notin stored.row_keys
             THEN render_tasks(stored)
             ELSE [stored EXCEPT !.table_rows[task_id] =
                                     [status |-> new_status, result |-> shown(new_result)]]
    ELSE w

\* the widget as one record
task_list == [list_tasks |-> list_tasks, row_keys |-> row_keys, table_rows |-> table_rows,
              rendering |-> rendering, pending_updates |-> pending_updates]

becomes(w) ==
    /\ list_tasks' = w.list_tasks
    /\ row_keys' = w.row_keys
    /\ table_rows' = w.table_rows
    /\ rendering' = w.rendering
    /\ pending_updates' = w.pending_updates

\* __init__ (lines 43-50)
InitTaskList ==
    /\ list_tasks = <<>>
    /\ row_keys = {}
    /\ table_rows = <<>>
    /\ rendering = FALSE
    /\ pending_updates = <<>>

\* update_tasks (lines 78-86)
UpdateTasks(the_steps) ==
    /\ becomes(render_tasks([task_list EXCEPT !.list_tasks = the_steps]))
    /\ UNCHANGED nonTaskListVars

\* a call of update_task_status by the router (task ids from 1)
UpdateTaskStatus(task_id, new_status, new_result) ==
    /\ becomes(update_task_status(task_list, task_id, new_status, new_result))
    /\ UNCHANGED nonTaskListVars

\* clear_tasks (lines 215-227)
ClearTasks ==
    /\ ~rendering
    /\ list_tasks' = <<>>
    /\ row_keys' = {}
    /\ pending_updates' = <<>>
    /\ table_rows' = <<>>
    /\ UNCHANGED rendering
    /\ UNCHANGED nonTaskListVars

NextTaskList ==
    \/ \E the_steps \in ListedSteps : UpdateTasks(the_steps)
    \/ \E task_id \in 1..(MaxSubtasks + 1), new_status \in 1..4, new_result \in {"", "text"} :
          UpdateTaskStatus(task_id, new_status, new_result)
    \/ ClearTasks

InitMore == InitStreamer /\ InitChat /\ InitThinking /\ InitHandler /\ InitTaskList

(* --------------------------- specifications ----------------------------- *)

\* the state after import, no accumulator fed yet
Init == InitMux /\ InitAcc /\ unit = "ContentTracker" /\ InitTool /\ InitPlan /\ InitWorker /\ InitRouter
        /\ InitClassify /\ InitName /\ InitBatch /\ InitApp /\ InitMore

\* the state after import, either accumulator about to be fed
InitEither == InitMux /\ InitAcc /\ InitTool /\ InitPlan /\ InitWorker /\ InitRouter
        /\ InitClassify /\ InitName /\ InitBatch /\ InitApp /\ InitMore

\* the multiplexer, with the accumulators idle
Spec == Init /\ [][NextMux]_vars

\* the accumulators, with the multiplexer idle
SpecAcc == InitEither /\ [][NextAcc]_vars

\* the tool-argument tracker alone
SpecTool == Init /\ [][NextTool]_vars

\* decomposition, plan execution and aggregation
SpecPlan == Init /\ [][NextPlan]_vars

\* one call of create_worker
SpecWorker == Init /\ [][NextWorker]_vars

\* the router's handlers
SpecRouter == Init /\ [][NextRouter]_vars

\* the state after import, a message text in hand
InitTexts == InitMux /\ InitAcc /\ unit = "ContentTracker" /\ InitTool /\ InitPlan /\ InitWorker
             /\ InitRouter /\ message_content \in MessageContents /\ task_type = "none"
             /\ InitName /\ InitBatch /\ InitApp /\ InitMore

\* the state after import, the arguments of a create_worker call in hand
InitArgs == InitMux /\ InitAcc /\ unit = "ContentTracker" /\ InitTool /\ InitPlan /\ InitWorker
            /\ InitRouter /\ InitClassify
            /\ worker_args \in [agent_name : WorkerAgentNames, task_id : 1..MaxTaskId]
            /\ worker_msg_name = <<>> /\ parsed_task_id = <<>> /\ InitBatch /\ InitApp /\ InitMore

\* the worker's name, built and read back
SpecName == InitArgs /\ [][NextName]_vars

\* the router's batch processing
SpecBatch == Init /\ [][NextBatch]_vars

\* the same, every task of the event loop getting its turn
SpecBatchLive ==
    Init /\ [][NextBatch]_vars /\ \A t \in BatchTaskIds : WF_vars(BatchTaskStep(t))

\* classification of message texts
SpecClassify == InitTexts /\ [][NextClassify]_vars

\* the application's submissions and clears
SpecApp == Init /\ [][NextApp]_vars


\* one MessageStreamer, its consumer and an interrupt
SpecStreamer == Init /\ [][NextStreamer]_vars

\* the same, the event loop running every ready task and callback, the root
\* task ending once cancelled, and the consumer iterating on
SpecStreamerLive ==
    /\ Init /\ [][NextStreamer]_vars
    /\ WF_vars(\E how \in {"ok", "cancelled"} : StreamerTaskDone(how))
    /\ WF_vars(StreamerCallback)
    /\ WF_vars(StreamerYield)
    /\ WF_vars(StreamerEnd)
    /\ WF_vars(InterruptReturns)


\* the chat widget, one add_message call after the other
SpecChat == Init /\ [][NextChat]_vars


\* the thinking widget and its clear timers
SpecThinking == Init /\ [][NextThinking]_vars


\* the router's handlers on plans as parsed
SpecHandler == Init /\ [][NextHandler]_vars


\* the task list widget, one call after the other
SpecTaskList == Init /\ [][NextTaskList]_vars


(***************************************************************************)
(* Properties                                                              *)
(***************************************************************************)

\* the latest call's generator has consumed an end signal and left the loop
Stopped == gen \in {"ended", "raised"}

\* number of end signals in a queue
RECURSIVE EndSignals(_)
EndSignals(q) ==
    IF q = <<>> THEN 0
    ELSE (IF Head(q) = end_signal THEN 1 ELSE 0) + EndSignals(Tail(q))

\* C1  Fan-in completeness: when the stream has ended on the end signal, every
\* event emitted while it was iterated and its root task was running has been
\* yielded; none is left in the channel.
C1_FanInComplete == Stopped => sent \subseteq Range(yielded)

C3_StreamTermination ==
    /\ Stopped => task[calls] # "running"
    /\ message_queue # 0 => EndSignals(queues[message_queue]) <= 1

\* C4  Root-task exception: when the stream has stopped and the root task has
\* raised, the exception was raised to the caller, after every event emitted
\* before it.
C4_RootException ==
    (Stopped /\ task[calls] = "exc") =>
        (raised = "root exception" /\ sent \subseteq Range(yielded))

\* C5  Teardown on every completion path: after the stream has ended, the
\* channel is None and the registration bookkeeping is empty.
C5_Teardown == Stopped => (message_queue = 0 /\ monitored_agent_ids = {})

\* C6  Consumer abandonment: once the consumer has dropped the iterator, the
\* root task is not left running.
C6_AbandonCancelsRoot == gen = "closed" => task[calls] # "running"

\* C7  Mid-session registration: while a call is being iterated, every agent
\* of the registry is subscribed to that call's channel, each subscribed once.
C7_Subscribed ==
    Live =>
        /\ message_queue = calls
        /\ \A a \in Range(agents) :
              /\ msg_queue[a] = message_queue
              /\ a \in monitored_agent_ids
              /\ setups[a] = 1

\* an agent registered after the call began is subscribed before any re-scan
\* and its event is on the channel
C7_Witness ==
    /\ Live
    /\ Len(agents) > last_checked_index
    /\ msg_queue[agents[Len(agents)]] = message_queue
    /\ <<agents[Len(agents)], 1>> \in Range(queues[message_queue])

\* C8  A timeout changes only the subscription bookkeeping and
\* last_checked_index: it removes nothing from the channel, yields nothing and
\* does not end the stream.
C8_TimeoutFrame ==
    [][timeout =>
          /\ queues' = queues
          /\ yielded' = yielded
          /\ gen' = gen
          /\ message_queue' = message_queue
          /\ task' = task
          /\ callbacks' = callbacks
          /\ agents' = agents]_vars

\* a re-scan advanced last_checked_index while an event was waiting
C8_Witness ==
    /\ rescans > 0
    /\ gen = "wait"
    /\ last_checked_index = Len(agents)
    /\ message_queue # 0
    /\ queues[message_queue] # <<>>

\* C9  Incremental delivery: as long as every snapshot of a key had the one
\* before it as a prefix, the increments handed out so far concatenate to the
\* last snapshot.
C9_Incremental == \A k \in Keys : growing[k] => delivered[k] = snapshot[k]

\* a key grew in two steps, the second increment being a proper suffix
C9_Witness ==
    /\ last_call.key \in TrackKeys
    /\ growing[last_call.key]
    /\ last_call.before = 1
    /\ Len(last_call.full_text) = 2
    /\ Len(returned) = 1

\* C10  Stale snapshot: a snapshot no longer than what was delivered returns
\* the empty string and leaves the recorded length unchanged.
C10_StaleSnapshot ==
    (last_call.key \in TrackKeys /\ Len(last_call.full_text) <= last_call.before) =>
        (returned = <<>> /\ displayed_lengths[last_call.key] = last_call.before)

\* the same non-empty snapshot was fed twice
C10_Witness ==
    /\ last_call.key \in TrackKeys
    /\ last_call.before = 2
    /\ Len(last_call.full_text) = 2
    /\ feeds = 2

\* C11  Reset per message: within one message of an agent whose snapshots grow
\* by appending, the increments returned for that message concatenate to its
\* last snapshot, however much of the agent's earlier messages was delivered.
C11_ResetPerMessage ==
    \A k \in TrackKeys : turn_growing[k] => turn_delivered[k] = turn_snapshot[k]

\* C12  Tool-argument increments: for each key of the argument map the call
\* returns nothing if str(value) equals the recorded value, the appended
\* suffix if the value is a str that the recorded value is a prefix of, and the
\* full value otherwise; a key whose str value only grew by appending has
\* received pieces that concatenate to its last value.
C12_ToolParamIncrements ==
    /\ DOMAIN changes \subseteq DOMAIN tool_call.current_params
    /\ \A key \in DOMAIN tool_call.current_params :
          LET value == tool_call.current_params[key]
              old_value == dict_get(tool_call.old_state, key, <<>>)
          IN  IF str(value) = old_value
              THEN key \notin DOMAIN changes
              ELSE /\ key \in DOMAIN changes
                   /\ changes[key] =
                          IF value.is_str /\ IsPrefix(old_value, str(value))
                          THEN StrValue(SliceFrom(str(value), Len(old_value)))
                          ELSE value
    /\ \A k \in ToolParamKeys : param_growing[k] => param_delivered[k] = str(param_value[k])

\* a str argument grew by appending and only its suffix was returned
C12_Witness ==
    /\ tool_calls = 2
    /\ \E key \in DOMAIN changes :
          /\ param_growing[<<tool_call.tool_id, key>>]
          /\ Len(dict_get(tool_call.old_state, key, <<>>)) = 1
          /\ changes[key] = StrValue(SliceFrom(str(tool_call.current_params[key]), 1))
          /\ Len(str(tool_call.current_params[key])) = 2

\* C13  Dependency gating: a subtask whose worker is running has every subtask
\* of the plan it depends on Done.
C13_DependencyGating ==
    \A n \in DOMAIN status :
        status[n] = "Running" =>
            \A d \in metadata_dict[n] : d \in DOMAIN status => status[d] = "Done"

\* exceptions raised by the parsing in decompose_task
DecomposeExceptions == {"JSONDecodeError", "KeyError", "AttributeError", "TypeError"}

\* the plan in hand is the fixed default plan
DefaultPlanInHand ==
    /\ plan = <<"analyze", "execute", "summarize">>
    /\ metadata_dict = create_default_plan.metadata_dict

\* C15  Fallback on invalid JSON: after decompose_task was given a response
\* that is not JSON, the plan is the default plan analyze, execute, summarize
\* (each depending on the one before) and decompose_task raised nothing.
C15_InvalidJsonFallback ==
    (decomposition_rounds > 0 /\ ~last_response.json) =>
        (DefaultPlanInHand /\ exception \notin DecomposeExceptions)

\* the default plan obtained from a response that is not JSON is being executed
C15_Witness ==
    /\ decomposition_rounds = 1
    /\ ~last_response.json
    /\ pc = "subtasks"
    /\ status = [n \in {"analyze", "execute", "summarize"} |->
                    IF n = "analyze" THEN "Done"
                    ELSE IF n = "execute" THEN "Running" ELSE "Pending"]

\* a JSON response without the required fields: not an object, no subtask
\* list, or a subtask without name or description
LacksRequiredFields(response) ==
    /\ response.json
    /\ \/ ~response.top_object
       \/ ~response.has_subtasks
       \/ \E i \in DOMAIN response.subtasks :
             /\ response.subtasks[i].is_object
             /\ ~(response.subtasks[i].has_name /\ response.subtasks[i].has_description)

\* C16  Fallback on missing fields: after decompose_task was given JSON that
\* lacks required fields, the plan is the default plan and decompose_task
\* raised nothing.
C16_MissingFieldsFallback ==
    (decomposition_rounds > 0 /\ LacksRequiredFields(last_response)) =>
        (DefaultPlanInHand /\ exception \notin DecomposeExceptions)

\* C20  Aggregation terminates: a complex message whose decomposition and
\* subtasks went through ends with the response returned after exactly one
\* aggregation call, and the aggregation call starts no classification or
\* decomposition round.
C20_AggregationTerminates ==
    /\ (/\ entry = "AriAgent.__call__"
        /\ decomposition_rounds > 0
        /\ pc \in {"returned", "raised"}
        /\ exception \notin DecomposeExceptions \cup {"sub-agent exception"})
       => (pc = "returned" /\ aggregation_calls = 1 /\ decomposition_rounds = 1)
    /\ aggregation_calls > 0 => pc \notin {"decompose", "log"}

\* text holds the tokens of message, in order and adjacent
Contains(text, message) ==
    \E i \in 0..(Len(text) - Len(message)) :
        SubSeq(text, i + 1, i + Len(message)) = message

\* C17  Worker failure: the worker is awaited at most once per call, and a
\* call in which construction or execution raised has returned exactly one
\* response, with metadata {task_id, status: "failed"} and a text that holds
\* the exception message; nothing is raised to the caller.
C17_WorkerFailure ==
    /\ invocations <= 1
    /\ cw_pc # "raised"
    /\ (raised_inside # <<>>) =>
          /\ cw_pc = "returned"
          /\ Len(responses) = 1
          /\ responses[1].metadata = [task_id |-> cw_task_id, status |-> "failed"]
          /\ Contains(responses[1].text, raised_inside[1])

\* the worker was awaited and raised
C17_Witness ==
    /\ invocations = 1
    /\ raised_inside = <<(<<"timeout">>)>>
    /\ cw_pc = "returned"

\* C18  Failure detection: a call in which the worker replied has returned
\* status "failed" exactly when the reply text, lower-cased, holds a failure
\* keyword, for str content and for a list of text blocks alike.
C18_FailureDetection ==
    (cw_pc = "returned" /\ res # <<>>) =>
        (responses[1].metadata.status = "failed" <=> is_task_failed(Join(res[1].blocks)))

\* Pending 0 < Assigning 1 < Running 2 < terminal (Done 3, Failed 4)
Rank(st) == IF st >= 3 THEN 3 ELSE st

\* C14  Status monotonicity: routing a message never lowers the status of a
\* step, and never replaces a terminal status by a non-terminal one.
C14_StatusMonotone ==
    [][\A i \in DOMAIN steps :
          i \in DOMAIN steps' => Rank(steps'[i]) >= Rank(steps[i])]_vars

\* C19  Classification order: the status set by a final worker message is
\* decided by the message metadata's status if it has one, else by a failed
\* tool-result block, else by the keyword scan of the text.
C19_ClassificationOrder ==
    last_final.status # 0 =>
        LET failed == IF last_final.metadata_status # "absent"
                      THEN last_final.metadata_status = "failed"
                      ELSE IF last_final.tool_result_failed THEN TRUE
                      ELSE router_is_task_failed(last_final.text)
        IN  last_final.status = IF failed THEN 4 ELSE 3

\* C21  A failed subtask does not abort the plan: when a subtask's execution
\* raised, the plan's run is not ended by that exception; once the run is over
\* every subtask of the plan has a recorded result and the aggregation ran.
C21_FailureDoesNotAbort ==
    (\E i \in DOMAIN plan : status[plan[i]] = "Failed") =>
        /\ ~(pc = "raised" /\ exception = "sub-agent exception")
        /\ pc \in {"returned", "raised"} =>
               /\ \A i \in DOMAIN plan : plan[i] \in execution_results
               /\ aggregation_calls > 0

\* the text without its leading and trailing whitespace
Stripped(text) ==
    LET solid == {k \in DOMAIN text : text[k] # " "}
    IN  IF solid = {} THEN <<>>
        ELSE SubSeq(text, CHOOSE k \in solid : \A m \in solid : k <= m,
                          CHOOSE k \in solid : \A m \in solid : k >= m)

\* C22  Request classification: analyze_task_type returns "chat" iff the
\* stripped input is empty, or has at most 20 characters and holds none of the
\* instruction words; every other input is classified "complex_task".
C22_Classification ==
    task_type # "none" =>
        LET content == Stripped(message_content)
            chat == \/ content = <<>>
                    \/ /\ Len(content) <= 20
                       /\ \A word \in instruction_words : ~Contains(content, word)
        IN  task_type = IF chat THEN "chat" ELSE "complex_task"

\* a text that is 22 characters long and 20 once stripped was classified "chat"
C22_Witness ==
    /\ task_type = "chat"
    /\ Len(message_content) = 22
    /\ Len(Stripped(message_content)) = 20

\* C23  Planner routing: the events of the planning agent are handled by the
\* planning handler, so once its final event with a valid plan was routed
\* planning is marked completed (and the step list is the plan's).
C23_PlannerRouting ==
    planner_final =>
        /\ do_route(planner_name) = "_handle_planning"
        /\ planning_completed

\* C24  Worker name round trip: for every agent_name, also one holding "-" or
\* "_", and every task_id >= 1 the worker is named "Worker_" + agent_name +
\* "-" + task_id, and the task id each consumer parses out of that name
\* equals task_id.
C24_NameRoundTrip ==
    /\ worker_msg_name # <<>> =>
           LET prefix == <<"Worker_">> \o worker_args.agent_name \o <<"-">>
           IN  /\ Len(worker_msg_name) > Len(prefix)
               /\ SubSeq(worker_msg_name, 1, Len(prefix)) = prefix
               /\ \A k \in (Len(prefix) + 1)..Len(worker_msg_name) :
                      worker_msg_name[k] \in Range(DecimalDigits)
    /\ parsed_task_id # <<>> =>
           /\ parsed_task_id[1].router = worker_args.task_id
           /\ parsed_task_id[1].manager = worker_args.task_id

\* the task id was read back from a name whose agent_name holds "-" and "_"
\* and whose task id has two digits
C24_Witness ==
    /\ parsed_task_id # <<>>
    /\ worker_args.agent_name = <<"-", "_">>
    /\ worker_args.task_id >= 10

\* C25  All-tasks-finished detection: at a worker's final event the router
\* announces completion iff every step has a terminal status (3 or 4), and
\* the manager, fed the same events, announces it at the same event.
C25_AllDoneDetection ==
    /\ notified.event = "worker final" =>
           (notified.router <=> (steps # <<>> /\ \A i \in DOMAIN steps : steps[i] \in {3, 4}))
    /\ notified.router = notified.manager

\* the text recorded during the latest call, and what the reader yielded
RecordedText == delivered[<<"call", "text">>]
YieldedText == Join(reader_yielded)

\* C26  Reader after the call: iterating get_text_stream() on the response of
\* an awaited call yields every increment recorded during the call, in order,
\* and then terminates.
C26_ReaderAfterCall ==
    (reader_start = "after" /\ reader_pc = "returned") => YieldedText = RecordedText

\* C27  Concurrent reader: a reader started while the call runs, in a call
\* whose final event was recorded, ends without an error, and once it has
\* ended after the call it has yielded every recorded increment once, in order.
C27_ConcurrentReader ==
    (reader_start = "during" /\ final_recorded) =>
        /\ reader_pc # "TypeError"
        /\ (reader_pc = "returned" /\ current_streaming_data = <<>>) =>
               YieldedText = RecordedText

\* the _process_updates tasks that have started and not ended
ActiveBatchTasks == {t \in DOMAIN batch_tasks : batch_tasks[t] \in {"_do_route", "sleep"}}

\* C28  Single batch processor: at most one _process_updates task is active
\* at any time, and the handling of an event begins only when the handling of
\* every event routed before it has finished.
C28_SingleProcessor ==
    /\ Cardinality(ActiveBatchTasks) <= 1
    /\ \A t \in DOMAIN batch_tasks :
           batch_tasks[t] = "_do_route" => \A e \in 1..(in_hand[t] - 1) : e \in finished

\* the processor tasks that are scheduled or running
LiveBatchTasks == {t \in DOMAIN batch_tasks : batch_tasks[t] \in {"created", "_do_route", "sleep"}}

\* no call of _do_route has raised
NoHandlerRaised == \A t \in DOMAIN batch_tasks : batch_tasks[t] # "raised"

IsSubmission == submitted' # submitted

\* a step of the application that is action_clear or the do_clear it created
IsClear == clear_calls' # clear_calls \/ clear_pending' # clear_pending

\* C30 (sessions): at most one multiplexing session is being iterated, and a
\* submission during a run starts none and leaves the registry as it is
C30_SubmissionRejected ==
    /\ [](sessions <= 1)
    /\ [][task_running /\ IsSubmission =>
            /\ sessions' = sessions
            /\ registry_agents' = registry_agents
            /\ run_pc' = run_pc]_vars

\* C30 (exit paths): the flag is true exactly while a run is between its
\* acceptance and its finally block, so a submission after a run is accepted
C30_FlagReset == [](task_running <=> run_pc # "idle")

\* C30: while a run is in progress a submission is rejected without a second
\* session and without a change of the registry, action_clear neither clears
\* the registry nor resets the root agent, and every exit of a run resets
\* _task_running
C30_OneRunAtATime ==
    /\ C30_SubmissionRejected
    /\ C30_FlagReset
    /\ [][task_running /\ IsClear =>
            /\ registry_agents' = registry_agents
            /\ root_instance' = root_instance]_vars

\* C31  Session isolation: the done-callback of an earlier call's root task and
\* the teardown of an earlier call never put an end marker into the channel
\* of the call that is current, and never set it to None.
C31_SessionIsolation ==
    [][\A s \in SessionIds :
          (s \in callbacks /\ s \notin callbacks' /\ s < calls /\ message_queue # 0)
              => /\ message_queue' = message_queue
                 /\ queues'[message_queue] = queues[message_queue]]_vars

\* C32  Root agent is always streamed: when a multiplexing session starts, the
\* registry holds exactly one agent with the root name and it is the current
\* singleton; and constructing the root agent while an initialised singleton
\* exists returns that object and registers nothing.
C32_RootAlwaysStreamed ==
    /\ [][sessions' > sessions =>
            /\ root_id' # 0
            /\ registry_roots' = <<root_id'>>
            /\ PROJECT_NAME \in registry_agents']_vars
    /\ [][(sessions' > sessions /\ root_initialized) =>
            /\ root_id' = root_id
            /\ registry_roots' = registry_roots
            /\ constructed' = constructed]_vars
    /\ [](\A i, j \in DOMAIN registry_roots : registry_roots[i] = registry_roots[j] => i = j)

\* a session is running on the second singleton, made after a clear, in a
\* later run than the one that made it
C32_Witness ==
    /\ sessions = 1
    /\ root_id = 2
    /\ registry_roots = <<2>>
    /\ submitted = 3

\* C33  Interrupt ends the stream: once interrupt() was called on a running
\* stream the flag is set and the root task is cancelled or done; interrupt()
\* returns; and the end marker reaches the channel, so that the consumer's
\* iteration ends.
C33_InterruptEndsStream ==
    /\ [](interrupt_pc # "none" =>
              streamer_interrupted /\ streamer_task \in {"cancelling", "ok", "exc", "cancelled"})
    /\ (interrupt_pc # "none") ~> (interrupt_pc = "returned")
    /\ (interrupt_pc # "none") ~> (streamer_gen \in {"ended", "closed"})
    /\ [][(interrupt_pc # "none" /\ streamer_gen = "wait" /\ streamer_gen' = "ended")
              => streamer_task \in {"ok", "exc", "cancelled"}]_vars

\* the stream was interrupted while its root task ran, events were still
\* waiting, and the consumer read them and then the end marker
C33_Witness ==
    /\ interrupt_pc = "returned"
    /\ streamer_task = "cancelled"
    /\ streamer_gen = "ended"
    /\ streamer_yielded = MaxEvents

\* C34 as stated: once a message id has had its final event, exactly one block
\* was mounted for it, the id is not in stream_blocks and its block is not in
\* the streaming state.
C34_OneBlockPerMessage ==
    \A id \in MsgIds :
        final_event[id] # "none" =>
            mounted[id] = 1 /\ id \notin stream_blocks /\ ~is_streaming[id]

\* C34  One chat block per message id: at most one block is ever mounted for a
\* message id, and once the id has had a final event with displayable content
\* exactly one block was mounted for it, the id is not in stream_blocks and
\* its block is not in the streaming state.
C34_OneBlockPerShownMessage ==
    \A id \in MsgIds :
        /\ mounted[id] <= 1
        /\ final_event[id] = "shown" =>
               mounted[id] = 1 /\ id \notin stream_blocks /\ ~is_streaming[id]

\* a message was streamed and completed, and another had a final event only
C34_Witness ==
    /\ final_event[1] = "shown" /\ nonfinal_events[1] = MaxEvents /\ mounted[1] = 1
    /\ final_event[2] = "shown" /\ nonfinal_events[2] = 0 /\ mounted[2] = 1

\* the _delayed_clear tasks of agent a that have not ended
PendingTimers(a) == {t \in DOMAIN timers : timers[t].agent = a /\ timers[t].pc \in {"sleep", "remove"}}

\* C35 (one timer): an agent has at most one clear timer that has not ended
C35_OneTimer == \A a \in AgentIds : Cardinality(PendingTimers(a)) <= 1

\* C35  Thinking clear timer: an agent has at most one pending clear timer, and
\* a thinking entry created or updated since the agent was last marked
\* complete is displayed: no earlier timer has removed it.
C35_TimerCancelled ==
    /\ C35_OneTimer
    /\ \A a \in AgentIds :
           (thinking_records[a] # <<>> /\ ~thinking_records[a][1].completed)
               => thinking_widgets[thinking_records[a][1].widget].is_mounted

\* C36  Thinking content is cleared after completion: when the clear timer of
\* an agent ends without having been cancelled, the agent has no record in
\* _thinking_records and none of its thinking entries is displayed.
C36_ClearedAfterCompletion ==
    [][\A t \in DOMAIN timers :
          (timers[t].pc # "done" /\ timers'[t].pc = "done")
              => /\ thinking_records'[timers[t].agent] = <<>>
                 /\ \A w \in DOMAIN thinking_widgets' :
                        thinking_widgets'[w].agent = timers[t].agent
                            => ~thinking_widgets'[w].is_mounted]_vars


\* C37: a final planner event without a well-formed plan (no JSON object,
\* malformed JSON, or steps that is not a list of objects) raises nothing in
\* the router and leaves steps and planning_completed as they were.
C37_InvalidPlanChangesNothing ==
    [][(/\ handled_count' = handled_count + 1
        /\ handled_event'.handler = "_handle_planning"
        /\ handled_event'.last
        /\ ~handled_event'.well_formed)
          => /\ ~handled_event'.raised
             /\ self_steps' = self_steps
             /\ self_planning_completed' = self_planning_completed]_vars

\* the part of C37 that holds: a planner event whose text has no JSON object
\* or malformed JSON changes nothing and raises nothing
C37_UnparsedPlanChangesNothing ==
    [][(/\ handled_count' = handled_count + 1
        /\ handled_event'.handler = "_handle_planning"
        /\ handled_event'.text # "object")
          => /\ ~handled_event'.raised
             /\ self_steps' = self_steps
             /\ self_planning_completed' = self_planning_completed]_vars

\* the elements of self.steps that are objects with a "status"
StoredStatuses ==
    {self_steps.items[i].status : i \in {j \in DOMAIN self_steps.items :
        self_steps.items[j].is_dict /\ self_steps.items[j].status # -1}}

\* C38, a plan is accepted at most once, and on acceptance every step has
\* status 0 and an empty result
C38_AcceptedOnce ==
    [][/\ (handled_event'.handler = "_handle_planning" /\ self_planning_completed)
             => self_steps' = self_steps /\ self_planning_completed'
       /\ (~self_planning_completed /\ self_planning_completed')
             => \A i \in DOMAIN self_steps'.items :
                    /\ self_steps'.items[i].is_dict
                    /\ self_steps'.items[i].status = 0
                    /\ self_steps'.items[i].result = ""]_vars

\* C38, an event of the root agent or of a worker for task id t changes no
\* step but the one at position t, and none when t is missing or beyond the plan
C38_OnlyStepT ==
    [][(/\ handled_count' = handled_count + 1
        /\ handled_event'.handler \in {"_handle_main_agent", "_handle_worker"})
          => /\ self_steps'.kind = self_steps.kind
             /\ DOMAIN self_steps'.items = DOMAIN self_steps.items
             /\ \A i \in DOMAIN self_steps.items :
                    i # handled_event'.task_id
                        => self_steps'.items[i] = self_steps.items[i]
             /\ (handled_event'.task_id = 0 \/ handled_event'.task_id > len(self_steps))
                    => self_steps' = self_steps]_vars

\* C38, every status stored is one of 0..4
C38_StatusRange == StoredStatuses \subseteq 0..4

\* C38: plan bookkeeping in the router: a plan is accepted at most once; on
\* acceptance every step has status 0 and an empty result; every status
\* stored is in {0,1,2,3,4}; an event for task id t changes only the step at
\* position t, and none when t is out of range, missing, or there is no plan.
C38_PlanBookkeeping ==
    /\ C38_AcceptedOnce
    /\ C38_OnlyStepT
    /\ []C38_StatusRange


\* C39: every run that finishes without error results in a completion notice
\* being displayed in the system message area, the second and every later run
\* as the first, with no clear in between: when the stream of a run ends, a
\* completion notice is mounted as the last system message.
C39_NoticeForEveryRun ==
    [][(run_pc = "streaming" /\ run_pc' = "completed")
          => /\ system_messages' # system_messages
             /\ system_messages'[Len(system_messages')] = SystemNotices.completed]_vars


\* the render guard of the task list at the points where another coroutine
\* can run: no render is in progress and no update is pending
RenderGuardIdle == ~rendering /\ pending_updates = <<>>

\* an update for a task of the list is stored and, when the task has a row,
\* shown in it
UpdateApplied ==
    [][\A t \in DOMAIN list_tasks :
          (list_tasks' # list_tasks /\ DOMAIN list_tasks' = DOMAIN list_tasks
              /\ list_tasks'[t] # list_tasks[t] /\ t \in row_keys')
                => table_rows'[t].status = list_tasks'[t].status]_vars

====
